---- MODULE Spec2Model ----
(***************************************************************************)
(* A model of danmu_bot.py: the API gateway (api_call, _reset_api_key),    *)
(* the quota ledger (check_and_update_limit and the inline check of        *)
(* main_callback_handler) and the callback dispatcher.                     *)
(*                                                                         *)
(* Concurrency: handlers are asyncio coroutines.  One model step is the    *)
(* code a coroutine runs between two suspension points (an await that      *)
(* really yields: a network request, a sleep, a Telegram call).  The       *)
(* return of api_call to its caller is modelled as a step of its own; the  *)
(* gateway's last step touches only the call's local state, so this adds   *)
(* no behaviour that a later arrival of the response does not already      *)
(* give.                                                                   *)
(***************************************************************************)
EXTENDS Integers, Sequences, FiniteSets, TLC

VARIABLES
    today,        \* str(date.today()): the calendar day, as a day number
    user_ops,     \* bot_data['user_operations']: [date, counts]
    ep_list,      \* bot_data['ep_list_<id>'], per work item: <<>> when absent
    admin_ids,    \* config.admin_ids
    auto_reset,   \* config.auto_reset_api_key_enabled
    api_key,      \* bot_data['danmu_server_api_key']
    srv_key,      \* the last key the server's regenerate endpoint issued
    user_data,    \* context.user_data, per user
    pc,           \* per handler task: where the coroutine is suspended
    ev,           \* per handler task: the update it is processing
    call,         \* per handler task: the frame of its api_call
    obs,          \* per handler task: what the update did (observation only)
    hist          \* per user: quota checks since the ledger's last reset (observation only)

gwVars   == <<auto_reset, api_key, srv_key, call>>
appVars  == <<today, user_ops, ep_list, admin_ids, user_data, ev, obs>>
vars     == <<today, user_ops, ep_list, admin_ids, auto_reset, api_key, srv_key,
              user_data, pc, ev, call, obs, hist>>

-----------------------------------------------------------------------------
(* Bounds of the model *)

MaxDay == 1
MaxKey == 2
MaxItem == 2
MaxCursor == 4
MaxChecks == 3
MaxEpisode == 2
MaxSeason == 2
MaxTask == 3
MaxLibrary == 1

(* Program constants *)

Retries == 3
user_daily_limit == 2
search_page_size == 2
max_list_items == 2

Procs == {1, 2}
Admin == "admin"
Users == {"admin", "u1", "u2"}

\* the work items (data["id"]), episode numbers (data["ep"]) and pages
\* (data["p"]) that the payloads name
WorkItems == {1, 2}
EpisodeNos == 1..MaxEpisode
Pages == 1..MaxEpisode

InitialKey == 0
RequestError == 0
HttpStatuses == {200, 401, 429, 500}
Responses == HttpStatuses \cup {RequestError}

-----------------------------------------------------------------------------
(* api_call *)

NoCall ==
    [phase |-> "none", attempt |-> 0, should_trigger_reset |-> FALSE,
     reset_reason |-> "", sent |-> <<>>, resp |-> <<>>, sleeps |-> <<>>,
     resets |-> 0, notify |-> 0, installs |-> <<>>]

\* lines 293-298: the frame at the first await; the key is read at send time
NewCall ==
    [NoCall EXCEPT !.phase = "request",
                   !.sent = <<[key |-> api_key, stage |-> "loop"]>>]

RECURSIVE Pow2(_)
Pow2(n) == IF n = 0 THEN 1 ELSE 2 * Pow2(n - 1)

WaitTime_FromZero(attempt) == Pow2(attempt)

\* line 310: wait_time = 2 ** (attempt + 1)
WaitTime(attempt) == Pow2(attempt + 1)

\* line 325: raise ValueError
Raise(c) == [c EXCEPT !.phase = "raised"]

\* lines 305-306: return {} or response.json()
Return(c) == [c EXCEPT !.phase = "returned"]

AfterLoop_ResetAnyway(c) ==
    IF c.should_trigger_reset
    THEN [c EXCEPT !.phase = "login", !.resets = @ + 1]
    ELSE Raise(c)

\* lines 315-316: after the loop; _reset_api_key runs up to its first await (269)
AfterLoop(c) ==
    IF c.should_trigger_reset /\ auto_reset
    THEN [c EXCEPT !.phase = "login", !.resets = @ + 1]
    ELSE Raise(c)

NextAttempt_OneMore(c) ==
    IF c.attempt + 1 <= Retries
    THEN [c EXCEPT !.attempt = @ + 1, !.phase = "request",
                   !.sent = Append(@, [key |-> api_key, stage |-> "loop"])]
    ELSE AfterLoop([c EXCEPT !.attempt = @ + 1])

NextAttempt_CachedKey(c) ==
    IF c.attempt + 1 < Retries
    THEN [c EXCEPT !.attempt = @ + 1, !.phase = "request",
                   !.sent = Append(@, [key |-> c.sent[1].key, stage |-> "loop"])]
    ELSE AfterLoop([c EXCEPT !.attempt = @ + 1])

\* lines 295-298 after `continue`: the next attempt, or the end of the loop
NextAttempt(c) ==
    IF c.attempt + 1 < Retries
    THEN [c EXCEPT !.attempt = @ + 1, !.phase = "request",
                   !.sent = Append(@, [key |-> api_key, stage |-> "loop"])]
    ELSE AfterLoop([c EXCEPT !.attempt = @ + 1])

\* lines 309-311: 429 marks the reset, sleeps, continues
On429(c) ==
    [c EXCEPT !.should_trigger_reset = TRUE, !.reset_reason = "rate-limited",
              !.sleeps = Append(@, WaitTime(c.attempt)), !.phase = "sleep"]

On401_Continue(c) ==
    NextAttempt([c EXCEPT !.should_trigger_reset = TRUE,
                          !.reset_reason = "unauthorized"])

\* line 312: 401 marks the reset and breaks out of the loop
On401(c) ==
    AfterLoop([c EXCEPT !.should_trigger_reset = TRUE,
                        !.reset_reason = "unauthorized"])

OnHardError_Break(c) == AfterLoop(c)

\* line 313: any other status raises at once
OnHardError(c) == Raise(c)

\* line 314: httpx.RequestError raises at once
OnRequestError(c) == Raise(c)

\* lines 304-314: what the loop does with one response
OnResponse(c, status) ==
    LET c1 == [c EXCEPT !.resp = Append(@, status)] IN
    CASE status = 200 -> Return(c1)
      [] status = 429 -> On429(c1)
      [] status = 401 -> On401(c1)
      [] status = RequestError -> OnRequestError(c1)
      [] OTHER -> OnHardError(c1)

\* lines 317-320: after a successful reset, resend with the current key
FinalRetry(c, key) ==
    [c EXCEPT !.phase = "retry",
              !.sent = Append(@, [key |-> key, stage |-> "final"])]

OnFinalResponse_Again(c, status) ==
    LET c1 == [c EXCEPT !.resp = Append(@, status)] IN
    IF status = 200 THEN Return(c1) ELSE AfterLoop(c1)

\* lines 321-324: the final response; any failure is swallowed, then 325 raises
OnFinalResponse(c, status) ==
    LET c1 == [c EXCEPT !.resp = Append(@, status)] IN
    IF status = 200 THEN Return(c1) ELSE Raise(c1)

\* line 298: the response to a loop attempt arrives
ApiResponseFrom(p, statuses) ==
    /\ call[p].phase = "request"
    /\ \E status \in statuses :
          call' = [call EXCEPT ![p] = OnResponse(call[p], status)]
    /\ UNCHANGED <<auto_reset, api_key, srv_key, pc, appVars, hist>>

\* line 311: asyncio.sleep(wait_time) ends
ApiWake(p) ==
    /\ call[p].phase = "sleep"
    /\ call' = [call EXCEPT ![p] = NextAttempt(call[p])]
    /\ UNCHANGED <<auto_reset, api_key, srv_key, pc, appVars, hist>>

\* lines 269-276: the login response; on success the regenerate request is sent
ResetLogin(p) ==
    /\ call[p].phase = "login"
    /\ \E ok \in BOOLEAN :
          call' = [call EXCEPT ![p] =
                     IF ok THEN [@ EXCEPT !.phase = "regen"] ELSE Raise(@)]
    /\ UNCHANGED <<auto_reset, api_key, srv_key, pc, appVars, hist>>

\* lines 276-285: the regenerate response; the new key is installed, then the
\* admins are notified one await at a time
ResetRegenerate(p) ==
    /\ call[p].phase = "regen"
    /\ \/ /\ call' = [call EXCEPT ![p] = Raise(@)]
          /\ UNCHANGED <<api_key, srv_key>>
       \/ /\ srv_key < MaxKey
          /\ srv_key' = srv_key + 1
          /\ api_key' = srv_key + 1
          /\ call' = [call EXCEPT ![p] =
                LET c == [@ EXCEPT !.installs = Append(@, srv_key + 1)] IN
                IF admin_ids = {}
                THEN FinalRetry(c, srv_key + 1)
                ELSE [c EXCEPT !.phase = "notify",
                               !.notify = Cardinality(admin_ids)]]
    /\ UNCHANGED <<auto_reset, pc, appVars, hist>>

\* lines 283-287: one send_message returns or raises
ResetNotify(p) ==
    /\ call[p].phase = "notify"
    /\ \E ok \in BOOLEAN :
          call' = [call EXCEPT ![p] =
                IF ~ok THEN Raise([@ EXCEPT !.notify = 0])
                ELSE IF @.notify > 1 THEN [@ EXCEPT !.notify = @ - 1]
                ELSE FinalRetry([@ EXCEPT !.notify = 0], api_key)]
    /\ UNCHANGED <<auto_reset, api_key, srv_key, pc, appVars, hist>>

\* line 320: the response to the final retry arrives
ApiFinalResponse(p) ==
    /\ call[p].phase = "retry"
    /\ \E status \in Responses :
          call' = [call EXCEPT ![p] = OnFinalResponse(call[p], status)]
    /\ UNCHANGED <<auto_reset, api_key, srv_key, pc, appVars, hist>>

ApiResponse(p) == ApiResponseFrom(p, Responses)

Gateway(p) ==
    \/ ApiResponse(p)
    \/ ApiWake(p)
    \/ ResetLogin(p)
    \/ ResetRegenerate(p)
    \/ ResetNotify(p)
    \/ ApiFinalResponse(p)

-----------------------------------------------------------------------------
(* State shared by the handlers *)

\* line 674: season = None
None == -1

\* the text after /import, or a title read from a URL: whether words remain
\* once the season indicator is taken off, the indicator's form ("marker" is
\* S<digits>, Season <digits> or 第<digits>季; "cn_marker" is 第<numerals>季,
\* n = 0 standing for numerals that chinese_to_arabic rejects; "integer" is
\* a last word of digits) and the number it carries
NoTerm == [base |-> 0, suffix |-> "none", n |-> 0]

\* what a handler asks the server for: the search of a term, or the import
\* of a term (or of a search result) with its media type and season
NoReq == [kind |-> "none", term |-> NoTerm, item |-> 0,
          media_type |-> "none", season |-> None]

NoEvent == [user |-> Admin, kind |-> "none", action |-> "none", idx |-> 0,
            arg |-> "none", sel |-> 0, eps |-> {}, id |-> 1, ep |-> 0, p |-> 1,
            term |-> NoTerm, req |-> NoReq, fields |-> TRUE]

\* the page a handler rendered: the list's length, the page size, the page
\* (or the cursor), the items shown and the two pagination buttons
NoView == [kind |-> "none", len |-> 0, page_size |-> 0, page |-> 0,
           items |-> <<>>, prev |-> FALSE, next |-> FALSE]

\* context.user_data of one user; absent keys read as their defaults
\* (has_tasks: 'displayed_tasks' in context.user_data, has_library:
\* 'displayed_library' in context.user_data)
InitSession ==
    [last_search_results |-> <<>>, search_start_index |-> 0,
     remove_list |-> <<>>, import_term |-> "none",
     selection |-> [w \in WorkItems |-> {}],
     displayed_tasks |-> <<>>, has_tasks |-> FALSE,
     displayed_library |-> <<>>, has_library |-> FALSE]

\* what one update did: observation only, never read by the handlers
\* (listed: the tasks clear_tasks fetched, bulk: the deletes it issued,
\* removed: those that succeeded, reported: the count it answered with;
\* sess: the session a task listing found; library: the library import_item
\* fetched)
NoObs ==
    [checked |-> FALSE, denied |-> FALSE, stale |-> FALSE, prior |-> 0,
     before |-> 0,
     after |-> 0, nth |-> 0, day |-> 0, calls |-> 0, crashed |-> FALSE,
     bulk |-> 0, was |-> {}, cached |-> FALSE, failed |-> FALSE,
     view |-> NoView, listed |-> <<>>, removed |-> None, reported |-> None,
     sess |-> InitSession, library |-> <<>>]

\* what happened to a user's quota since the ledger was last reset
NoHist == [gated |-> 0, wrapped |-> 0, allowed |-> 0, confirmed |-> {},
           last |-> <<>>]

\* post_init (lines 1034-1038) and the configuration
InitShared ==
    /\ today = 0
    /\ user_ops = [date |-> 0, counts |-> <<>>]
    /\ ep_list = [w \in WorkItems |-> <<>>]
    /\ admin_ids = {Admin}
    /\ auto_reset \in BOOLEAN
    /\ api_key = InitialKey
    /\ srv_key = InitialKey
    /\ user_data = [u \in Users |-> InitSession]
    /\ pc = [p \in Procs |-> "idle"]
    /\ ev = [p \in Procs |-> NoEvent]
    /\ call = [p \in Procs |-> NoCall]
    /\ obs = [p \in Procs |-> NoObs]
    /\ hist = [u \in Users |-> NoHist]

\* list[start:end] of Python for 0 <= start
PySlice(list, start, end) ==
    SubSeq(list, start + 1, IF end < Len(list) THEN end ELSE Len(list))

\* the list <<1, ..., n>> of items a listing endpoint answers with
Items(n) == [i \in 1..n |-> i]

-----------------------------------------------------------------------------
(* Quota ledger *)

GatedActions ==
    {"import_item", "confirm_import_movie", "confirm_import_tv",
     "batch_import", "exec_del"}

\* counts.get(user_id, 0)
Count(ops, u) == IF u \in DOMAIN ops.counts THEN ops.counts[u] ELSE 0

Rollover_Always(ops) == [date |-> today, counts |-> <<>>]

Rollover_KeepCounts(ops) ==
    IF ops.date # today THEN [ops EXCEPT !.date = today] ELSE ops

\* lines 533-539 and 865-870: a new day resets the date and the counts
Rollover(ops) ==
    IF ops.date # today THEN [date |-> today, counts |-> <<>>] ELSE ops

LimitReached_Above(op_count) == op_count > user_daily_limit

\* lines 545 and 873: the limit test
LimitReached(op_count) == op_count >= user_daily_limit

Consume_Overwrite(ops, u) == [ops EXCEPT !.counts = (u :> 1)]

\* lines 550 and 877: counts[user_id] = op_count + 1
Consume(ops, u) ==
    [ops EXCEPT !.counts = (u :> (Count(ops, u) + 1)) @@ @]

\* lines 865-877: the ledger after the check and whether it allows
CheckLimit(ops, u) ==
    LET o == Rollover(ops) IN
    IF LimitReached(Count(o, u))
    THEN [allowed |-> FALSE, ops |-> o]
    ELSE [allowed |-> TRUE, ops |-> Consume(o, u)]

InlineLimit_NoAdmin(ops, u, action) ==
    IF action \in GatedActions
    THEN CheckLimit(ops, u)
    ELSE [allowed |-> TRUE, ops |-> ops]

\* lines 858-877: the inline check of main_callback_handler
InlineLimit(ops, u, action) ==
    IF u \notin admin_ids /\ action \in GatedActions
    THEN CheckLimit(ops, u)
    ELSE [allowed |-> TRUE, ops |-> ops]

\* lines 527-552: the decorator check_and_update_limit
WrapperLimit(ops, u) ==
    IF u \in admin_ids
    THEN [allowed |-> TRUE, ops |-> ops]
    ELSE CheckLimit(ops, u)

\* the observation of one check of user u against ledger ops
Observe(o, ops, u, g, n) ==
    [o EXCEPT !.checked = TRUE, !.denied = ~g.allowed,
              !.stale = (ops.date # today), !.prior = Count(ops, u),
              !.before = Count(Rollover(ops), u),
              !.after = Count(g.ops, u), !.nth = n, !.day = today]

\* the history of user u after a check; a reset of the ledger restarts it
HistAfter(ops, u, g, which) ==
    LET h0 == IF ops.date # today
              THEN [v \in Users |->
                      [hist[v] EXCEPT !.gated = 0, !.wrapped = 0,
                                      !.allowed = 0]]
              ELSE hist
        h1 == [h0 EXCEPT ![u].allowed = IF g.allowed THEN @ + 1 ELSE @] IN
    IF which = "gated" THEN [h1 EXCEPT ![u].gated = @ + 1]
                       ELSE [h1 EXCEPT ![u].wrapped = @ + 1]

\* the ordinal of this gated event among the user's events since the reset,
\* 0 when the user also went through the decorator since then
Ordinal(ops, u) ==
    IF ops.date # today THEN 1
    ELSE IF hist[u].wrapped = 0 THEN hist[u].gated + 1 ELSE 0

CanCheck(u) == hist[u].gated + hist[u].wrapped < MaxChecks

-----------------------------------------------------------------------------
(* main_callback_handler *)

CallbackActions ==
    GatedActions \cup
    {"page_prev", "page_next", "cancel_message", "req_del_confirm",
     "cancel_del", "show_episodes", "undecodable"}

\* line 975: the per-task actions
TaskActions == {"pause_task", "resume_task", "abort_task", "delete_task"}

\* lines 966-990: the actions whose branch also tests user_id in admin_ids
PrivilegedActions ==
    TaskActions \cup {"clear_tasks", "req_del_confirm", "exec_del"}

Privileged_Anyone(u) == TRUE

\* lines 785, 966, 975, 986, 990: user_id in config.admin_ids
Privileged(u) == u \in admin_ids

\* the actions whose payload carries "idx"
IndexedActions ==
    TaskActions \cup {"import_item", "req_del_confirm", "exec_del"}

Finished(p, o) ==
    /\ pc' = [pc EXCEPT ![p] = "done"]
    /\ obs' = [obs EXCEPT ![p] = o]

\* line 846: a callback query arrives; the handler awaits query.answer()
\* (fields: the payload of an action that reads data["idx"] carries it)
RecvCallback(p, users, actions) ==
    /\ pc[p] = "idle"
    /\ \E u \in users, a \in actions, i \in 0..MaxItem, w \in WorkItems,
          f \in BOOLEAN :
          /\ a \notin IndexedActions => i = 0 /\ f
          /\ ~f => i = 0
          /\ a # "batch_import" => w = NoEvent.id
          /\ ev' = [ev EXCEPT ![p] = [NoEvent EXCEPT !.user = u,
                                   !.kind = "callback", !.action = a, !.idx = i,
                                   !.id = w, !.fields = f]]
    /\ pc' = [pc EXCEPT ![p] = "answer"]
    /\ obs' = [obs EXCEPT ![p] = NoObs]
    /\ UNCHANGED <<today, ep_list, user_ops, admin_ids, user_data, hist, gwVars>>

\* lines 847-851: the payload does not decode or names no action
CbUndecodable_Counted(p) ==
    /\ pc[p] = "answer" /\ ev[p].action = "undecodable"
    /\ user_ops' = WrapperLimit(user_ops, ev[p].user).ops
    /\ Finished(p, obs[p])
    /\ UNCHANGED <<today, ep_list, admin_ids, user_data, ev, hist, gwVars>>

CbUndecodable(p) ==
    /\ pc[p] = "answer" /\ ev[p].action = "undecodable"
    /\ Finished(p, obs[p])
    /\ UNCHANGED <<today, ep_list, user_ops, admin_ids, user_data, ev, hist, gwVars>>

\* lines 853-856: cancel_message deletes the message
CbCancel_Gated(p) ==
    LET g == WrapperLimit(user_ops, ev[p].user) IN
    /\ pc[p] = "answer" /\ ev[p].action = "cancel_message"
    /\ user_ops' = g.ops
    /\ Finished(p, [obs[p] EXCEPT !.denied = ~g.allowed])
    /\ UNCHANGED <<today, ep_list, admin_ids, user_data, ev, hist, gwVars>>

CbCancel(p) ==
    /\ pc[p] = "answer" /\ ev[p].action = "cancel_message"
    /\ Finished(p, obs[p])
    /\ UNCHANGED <<today, ep_list, user_ops, admin_ids, user_data, ev, hist, gwVars>>

\* the inline check ran for this event
Gated(p) == ev[p].user \notin admin_ids /\ ev[p].action \in GatedActions

\* the ledger, observation and history after the inline check of event p
Gate(p) ==
    LET u == ev[p].user
        g == InlineLimit(user_ops, u, ev[p].action) IN
    [allowed |-> g.allowed, ops |-> g.ops,
     obs |-> IF Gated(p)
             THEN Observe(obs[p], user_ops, u, g, Ordinal(user_ops, u))
             ELSE obs[p],
     hist |-> IF Gated(p) THEN HistAfter(user_ops, u, g, "gated") ELSE hist]

GateOpen(p) ==
    /\ pc[p] = "answer"
    /\ Gated(p) => CanCheck(ev[p].user)
    /\ Gate(p).allowed

\* lines 873-876: the inline check denies
CbDenied(p) ==
    /\ pc[p] = "answer"
    /\ ev[p].action \in GatedActions
    /\ Gated(p) => CanCheck(ev[p].user)
    /\ ~Gate(p).allowed
    /\ user_ops' = Gate(p).ops
    /\ hist' = Gate(p).hist
    /\ Finished(p, Gate(p).obs)
    /\ UNCHANGED <<today, ep_list, admin_ids, user_data, ev, gwVars>>

\* line 882: the new start index
NewIndex(action, current_index) ==
    IF action = "page_next" THEN current_index + search_page_size
    ELSE IF current_index - search_page_size > 0
         THEN current_index - search_page_size ELSE 0

CbPage_CountedTwice(p) ==
    LET u == ev[p].user
        g == WrapperLimit(CheckLimit(user_ops, u).ops, u) IN
    /\ pc[p] = "answer" /\ ev[p].action \in {"page_prev", "page_next"}
    /\ u \notin admin_ids => CanCheck(u)
    /\ user_ops' = g.ops
    /\ hist' = IF u \in admin_ids THEN hist
               ELSE HistAfter(user_ops, u, g, "wrapped")
    /\ Finished(p, IF u \in admin_ids THEN obs[p]
                   ELSE Observe(obs[p], user_ops, u, g, 0))
    /\ UNCHANGED <<today, ep_list, admin_ids, user_data, ev, gwVars>>

\* lines 879-884 with 591-592 and 619-644: page_prev / page_next move the
\* cursor, then re-enter the decorated search_command
CbPage(p) ==
    LET u == ev[p].user
        new_index == NewIndex(ev[p].action, user_data[u].search_start_index)
        g == WrapperLimit(user_ops, u) IN
    /\ pc[p] = "answer" /\ ev[p].action \in {"page_prev", "page_next"}
    /\ new_index <= MaxCursor
    /\ u \notin admin_ids => CanCheck(u)
    /\ user_data' = [user_data EXCEPT ![u].search_start_index = new_index]
    /\ user_ops' = g.ops
    /\ IF u \in admin_ids
       THEN /\ hist' = hist
            /\ Finished(p, obs[p])
       ELSE /\ hist' = HistAfter(user_ops, u, g, "wrapped")
            /\ Finished(p, Observe(obs[p], user_ops, u, g, 0))
    /\ UNCHANGED <<today, ep_list, admin_ids, ev, gwVars>>

\* no branch of lines 879-996 matches: show_episodes, or a privileged-only
\* action of another user (966, 975, 986, 990); cancel_del (995-996) only
\* edits the message
CbNoBranch(p) ==
    /\ GateOpen(p)
    /\ \/ ev[p].action \in {"show_episodes", "cancel_del"}
       \/ /\ ev[p].action \in PrivilegedActions
          /\ ~Privileged(ev[p].user)
    /\ user_ops' = Gate(p).ops
    /\ hist' = Gate(p).hist
    /\ Finished(p, Gate(p).obs)
    /\ UNCHANGED <<today, ep_list, admin_ids, user_data, ev, gwVars>>

\* api_call is entered: the first request is sent before the first await
Invoke(p, label, o) ==
    /\ pc' = [pc EXCEPT ![p] = label]
    /\ call' = [call EXCEPT ![p] = NewCall]
    /\ obs' = [obs EXCEPT ![p] = [o EXCEPT !.calls = @ + 1]]

CallEnded(p) == call[p].phase \in {"returned", "raised"}

\* lines 892-899: import_item looks the entry up and fetches the library;
\* data["idx"] raises KeyError without the field, the list raises IndexError
\* for an index it does not have
CbImportItem(p) ==
    LET u == ev[p].user
        results == user_data[u].last_search_results IN
    /\ GateOpen(p) /\ ev[p].action = "import_item"
    /\ user_ops' = Gate(p).ops
    /\ hist' = Gate(p).hist
    /\ IF ~ev[p].fields \/ ev[p].idx >= Len(results)
       THEN /\ Finished(p, [Gate(p).obs EXCEPT !.crashed = TRUE])
            /\ UNCHANGED <<ev, call>>
       ELSE /\ ev' = [ev EXCEPT ![p].sel = results[ev[p].idx + 1]]
            /\ Invoke(p, "import_lib", Gate(p).obs)
    /\ UNCHANGED <<today, ep_list, admin_ids, user_data, auto_reset, api_key, srv_key>>

\* lines 611 and 921: result.get("type"); odd entries are movies, even ones
\* series
Kind(item) == IF item % 2 = 1 THEN "movie" ELSE "tv_series"

\* the items a library or a search answers with: the title is a name in
\* lower or upper case, with or without blanks around it; year, season and
\* episodeCount are present or null
LibraryItems ==
    [title : [name : 1..MaxItem, upper : BOOLEAN, padded : BOOLEAN],
     year : {None, 1}, season : {None, 1}, episodeCount : {None, 1}]

\* line 894: the search result behind entry `item`; the entries differ in
\* the case and the blanks of their titles, a series carries a season
Result(item) ==
    [title |-> [name |-> item, upper |-> item % 2 = 1, padded |-> item > 1],
     year |-> 1,
     season |-> IF Kind(item) = "tv_series" THEN 1 ELSE None,
     episodeCount |-> None]

\* lines 902 and 908: title.strip().lower()
Normalise(title) == [title EXCEPT !.upper = FALSE, !.padded = FALSE]

\* lines 902-906 and 908-912: (title, year, season, episode_count)
Metadata(item) ==
    <<Normalise(item.title), item.year, item.season, item.episodeCount>>

IsDuplicate_Never(selected, library_items) == FALSE

\* lines 900-914: result_metadata_tuple in library_metadata_set
IsDuplicate(selected, library_items) ==
    Metadata(selected) \in
        {Metadata(library_items[i]) : i \in 1..Len(library_items)}

\* the libraries of the quota specifications: empty, or one search result
KnownLibraries == {<<>>} \cup {<<Result(i)>> : i \in 1..MaxItem}

\* lines 899-925: the duplicate check against the fetched library; an entry
\* that is not in the library is imported with the type it carries
CbImportLibrary(p, libraries) ==
    /\ pc[p] = "import_lib" /\ CallEnded(p)
    /\ call' = [call EXCEPT ![p] = NoCall]
    /\ IF call[p].phase = "raised"
       THEN /\ pc' = [pc EXCEPT ![p] = "done"]
            /\ UNCHANGED <<ev, obs>>
       ELSE \E library_items \in libraries :
               /\ obs' = [obs EXCEPT ![p].library = library_items]
               /\ IF IsDuplicate(Result(ev[p].sel), library_items)
                  THEN /\ pc' = [pc EXCEPT ![p] = "done"]
                       /\ ev' = ev
                  ELSE /\ pc' = [pc EXCEPT ![p] = "import_status"]
                       /\ ev' = [ev EXCEPT ![p].req =
                                   [NoReq EXCEPT
                                      !.kind = "import",
                                      !.item = ev[p].sel,
                                      !.media_type = Kind(ev[p].sel)]]
    /\ UNCHANGED <<today, ep_list, user_ops, admin_ids, user_data, hist,
                   auto_reset, api_key, srv_key>>

\* lines 928-935: confirm_import_movie / confirm_import_tv read the staged term
CbConfirmImport(p) ==
    /\ GateOpen(p)
    /\ ev[p].action \in {"confirm_import_movie", "confirm_import_tv"}
    /\ user_ops' = Gate(p).ops
    /\ hist' = Gate(p).hist
    /\ obs' = [obs EXCEPT ![p] = Gate(p).obs]
    /\ pc' = [pc EXCEPT ![p] =
                IF user_data[ev[p].user].import_term = "none"
                THEN "done" ELSE "import_status"]
    /\ UNCHANGED <<today, ep_list, admin_ids, user_data, ev, gwVars>>

\* lines 327-336: _execute_auto_import posts the import
ImportSend(p) ==
    /\ pc[p] = "import_status"
    /\ Invoke(p, "import_exec", obs[p])
    /\ UNCHANGED <<today, ep_list, user_ops, admin_ids, user_data, ev, hist,
                   auto_reset, api_key, srv_key>>

\* lines 337-341, then 931 and 935: the import ended; the staged term is popped
ImportDone(p) ==
    LET u == ev[p].user IN
    /\ pc[p] = "import_exec" /\ CallEnded(p)
    /\ call' = [call EXCEPT ![p] = NoCall]
    /\ pc' = [pc EXCEPT ![p] = "done"]
    /\ user_data' =
          IF ev[p].action \in {"confirm_import_movie", "confirm_import_tv"}
          THEN [user_data EXCEPT ![u].import_term = "none"]
          ELSE user_data
    /\ UNCHANGED <<today, ep_list, user_ops, admin_ids, ev, obs, hist,
                   auto_reset, api_key, srv_key>>

NothingSelected_Never(selected_episodes) == FALSE

\* line 949: not selected_episodes
NothingSelected(selected_episodes) == selected_episodes = {}

\* lines 947-950: batch_import reads the selection of data["id"]
CbBatchImport(p) ==
    LET selected_episodes == user_data[ev[p].user].selection[ev[p].id] IN
    /\ GateOpen(p) /\ ev[p].action = "batch_import"
    /\ user_ops' = Gate(p).ops
    /\ hist' = Gate(p).hist
    /\ obs' = [obs EXCEPT ![p] = Gate(p).obs]
    /\ ev' = [ev EXCEPT ![p].eps = selected_episodes]
    /\ pc' = [pc EXCEPT ![p] =
                IF NothingSelected(selected_episodes)
                THEN "done" ELSE "batch_status"]
    /\ UNCHANGED <<today, ep_list, admin_ids, user_data, gwVars>>

\* line 952: the batch import is posted
BatchSend(p) ==
    /\ pc[p] = "batch_status"
    /\ Invoke(p, "batch_exec", obs[p])
    /\ UNCHANGED <<today, ep_list, user_ops, admin_ids, user_data, ev, hist,
                   auto_reset, api_key, srv_key>>

\* lines 953-958: the batch import ended (obs notes a ValueError)
BatchDone(p) ==
    /\ pc[p] = "batch_exec" /\ CallEnded(p)
    /\ call' = [call EXCEPT ![p] = NoCall]
    /\ pc' = [pc EXCEPT ![p] =
                IF call[p].phase = "returned" THEN "batch_notify" ELSE "done"]
    /\ obs' = [obs EXCEPT ![p].failed = (call[p].phase = "raised")]
    /\ UNCHANGED <<today, ep_list, user_ops, admin_ids, user_data, ev, hist,
                   auto_reset, api_key, srv_key>>

DelSelection_Keep(sessions, u, w) == sessions

\* line 957: del context.user_data[selection_key]
DelSelection(sessions, u, w) == [sessions EXCEPT ![u].selection[w] = {}]

\* lines 954-957: after the notices, the selection is deleted
BatchClear(p) ==
    /\ pc[p] = "batch_notify"
    /\ user_data' = DelSelection(user_data, ev[p].user, ev[p].id)
    /\ pc' = [pc EXCEPT ![p] = "done"]
    /\ UNCHANGED <<today, ep_list, user_ops, admin_ids, ev, obs, hist, gwVars>>

\* lines 986-989 and 990-992: a privileged user's req_del_confirm / exec_del
\* looks the entry up in remove_list; req_del_confirm shows the confirmation
\* for it (hist records which, for observation only)
CbDeleteLookup(p) ==
    LET u == ev[p].user
        remove_list == user_data[u].remove_list IN
    /\ GateOpen(p)
    /\ ev[p].action \in {"req_del_confirm", "exec_del"}
    /\ Privileged(u)
    /\ user_ops' = Gate(p).ops
    /\ IF ~ev[p].fields \/ ev[p].idx >= Len(remove_list)
       THEN /\ Finished(p, [Gate(p).obs EXCEPT !.crashed = TRUE])
            /\ ev' = ev
            /\ hist' = Gate(p).hist
       ELSE /\ obs' = [obs EXCEPT ![p] = Gate(p).obs]
            /\ ev' = [ev EXCEPT ![p].sel = remove_list[ev[p].idx + 1]]
            /\ hist' = IF ev[p].action = "req_del_confirm"
                       THEN [Gate(p).hist EXCEPT ![u].confirmed =
                               @ \cup {<<ev[p].idx, remove_list[ev[p].idx + 1]>>}]
                       ELSE Gate(p).hist
            /\ pc' = [pc EXCEPT ![p] =
                  IF ev[p].action = "exec_del" THEN "del_status" ELSE "done"]
    /\ UNCHANGED <<today, ep_list, admin_ids, user_data, gwVars>>

\* line 993: the library delete is sent
DeleteSend(p) ==
    /\ pc[p] = "del_status"
    /\ Invoke(p, "del_exec", obs[p])
    /\ UNCHANGED <<today, ep_list, user_ops, admin_ids, user_data, ev, hist,
                   auto_reset, api_key, srv_key>>

\* lines 993-994: the delete ended
DeleteDone(p) ==
    /\ pc[p] = "del_exec" /\ CallEnded(p)
    /\ call' = [call EXCEPT ![p] = NoCall]
    /\ pc' = [pc EXCEPT ![p] = "done"]
    /\ UNCHANGED <<appVars, hist, auto_reset, api_key, srv_key>>

\* the actions of the episode selection (lines 936-946)
SelectionActions ==
    {"page_episodes", "toggle_episode", "select_all_ep", "clear_ep_sel"}

\* line 846: an action of the episode selection arrives with its payload:
\* the work item, the page and, for a toggle, the episode number
RecvEpisode(p, users, actions) ==
    /\ pc[p] = "idle"
    /\ \E u \in users, a \in actions, w \in WorkItems, page \in Pages,
          e \in {0} \cup EpisodeNos :
          /\ (a = "toggle_episode") = (e # 0)
          /\ ev' = [ev EXCEPT ![p] = [NoEvent EXCEPT !.user = u,
                       !.kind = "callback", !.action = a, !.id = w,
                       !.ep = e, !.p = page]]
          /\ obs' = [obs EXCEPT ![p] = [NoObs EXCEPT
                       !.was = user_data[u].selection[w],
                       !.cached = (ep_list[w] # <<>>)]]
    /\ pc' = [pc EXCEPT ![p] = "answer"]
    /\ UNCHANGED <<today, ep_list, user_ops, admin_ids, user_data, hist, gwVars>>

SetDefault_Fresh(selection) == {}

\* line 504: user_data.setdefault(selection_key, set()); an absent key
\* reads as the empty set
SetDefault(selection) == selection

Toggle_AddOnly(selection_set, ep_num) == selection_set \cup {ep_num}

\* lines 939-940: the toggle of one episode number
Toggle(selection_set, ep_num) ==
    IF ep_num \in selection_set
    THEN selection_set \ {ep_num}
    ELSE selection_set \cup {ep_num}

\* line 943: the episode numbers of the cached list, none when it is absent
AllEpNums(cache) == IF cache = <<>> THEN {} ELSE cache[1]

\* lines 502-504: with a non-empty list the selection key is set by default
Shown(sessions, u, w, episodes) ==
    IF episodes = {} THEN sessions
    ELSE [sessions EXCEPT ![u].selection[w] = SetDefault(@)]

Display_AlwaysFetch(p, sessions) ==
    /\ user_data' = sessions
    /\ Invoke(p, "ep_exec", obs[p])

\* lines 492-523: _display_episode_selection for session state `sessions`:
\* a cached list is rendered at once, an absent one is fetched first
Display(p, sessions) ==
    LET u == ev[p].user
        w == ev[p].id IN
    IF ep_list[w] # <<>>
    THEN /\ user_data' = Shown(sessions, u, w, ep_list[w][1])
         /\ pc' = [pc EXCEPT ![p] = "done"]
         /\ UNCHANGED <<call, obs>>
    ELSE /\ user_data' = sessions
         /\ Invoke(p, "ep_exec", obs[p])

\* line 936: page_episodes shows another page
CbPageEpisodes(p) ==
    /\ GateOpen(p) /\ ev[p].action = "page_episodes"
    /\ Display(p, user_data)
    /\ UNCHANGED <<today, ep_list, user_ops, admin_ids, ev, hist,
                   auto_reset, api_key, srv_key>>

\* lines 937-941: toggle_episode
CbToggleEpisode(p) ==
    LET u == ev[p].user IN
    /\ GateOpen(p) /\ ev[p].action = "toggle_episode"
    /\ Display(p, [user_data EXCEPT
                     ![u].selection[ev[p].id] = Toggle(@, ev[p].ep)])
    /\ UNCHANGED <<today, ep_list, user_ops, admin_ids, ev, hist,
                   auto_reset, api_key, srv_key>>

\* lines 942-944: select_all_ep takes the numbers of the cached list
CbSelectAll(p) ==
    LET u == ev[p].user IN
    /\ GateOpen(p) /\ ev[p].action = "select_all_ep"
    /\ Display(p, [user_data EXCEPT
                     ![u].selection[ev[p].id] = AllEpNums(ep_list[ev[p].id])])
    /\ UNCHANGED <<today, ep_list, user_ops, admin_ids, ev, hist,
                   auto_reset, api_key, srv_key>>

\* lines 945-946: clear_ep_sel
CbClearSelection(p) ==
    LET u == ev[p].user IN
    /\ GateOpen(p) /\ ev[p].action = "clear_ep_sel"
    /\ Display(p, [user_data EXCEPT ![u].selection[ev[p].id] = {}])
    /\ UNCHANGED <<today, ep_list, user_ops, admin_ids, ev, hist,
                   auto_reset, api_key, srv_key>>

\* lines 499-504 and 523: the episode list arrives and is cached, or the
\* ValueError of api_call is reported
EpisodesFetched(p) ==
    LET u == ev[p].user
        w == ev[p].id IN
    /\ pc[p] = "ep_exec" /\ CallEnded(p)
    /\ call' = [call EXCEPT ![p] = NoCall]
    /\ pc' = [pc EXCEPT ![p] = "done"]
    /\ IF call[p].phase = "raised"
       THEN UNCHANGED <<ep_list, user_data>>
       ELSE \E n \in 0..MaxEpisode :
               /\ ep_list' = [ep_list EXCEPT ![w] = <<1..n>>]
               /\ user_data' = Shown(user_data, u, w, 1..n)
    /\ UNCHANGED <<today, user_ops, admin_ids, ev, obs, hist,
                   auto_reset, api_key, srv_key>>

\* lines 966-967: a privileged user's clear_tasks edits the message first
CbClearCompleted(p) ==
    /\ GateOpen(p) /\ ev[p].action = "clear_tasks"
    /\ Privileged(ev[p].user)
    /\ pc' = [pc EXCEPT ![p] = "clear_status"]
    /\ UNCHANGED <<appVars, hist, gwVars>>

\* line 968: the task list is fetched
ClearSend(p) ==
    /\ pc[p] = "clear_status"
    /\ Invoke(p, "clear_list", obs[p])
    /\ UNCHANGED <<today, ep_list, user_ops, admin_ids, user_data, ev, hist,
                   auto_reset, api_key, srv_key>>

\* the statuses of a task: 已完成, 失败, 已中止 and the ones of a task that
\* is still queued, running or paused
TaskStatuses ==
    {"completed", "failed", "aborted", "queued", "running", "paused"}

\* the answers of GET /tasks: up to maxlen tasks, in any order
TaskLists(statuses, times, maxlen) ==
    UNION {[1..n -> [status : statuses, creationTime : times]] :
              n \in 0..maxlen}

\* line 969: the tasks clear_tasks deletes
TasksToDelete(all_tasks) ==
    SelectSeq(all_tasks,
              LAMBDA t : t.status \in {"completed", "failed", "aborted"})

\* line 355: list.sort(key = creationTime, reverse = True), a stable sort
RECURSIVE SortByCreationTime(_)
SortByCreationTime(tasks) ==
    IF tasks = <<>> THEN <<>>
    ELSE LET t == Head(tasks)
             rest == SortByCreationTime(Tail(tasks))
             before == SelectSeq(rest,
                          LAMBDA x : x.creationTime > t.creationTime)
             after == SelectSeq(rest,
                          LAMBDA x : x.creationTime <= t.creationTime) IN
         before \o <<t>> \o after

Snapshot_Unsorted(all_tasks) ==
    PySlice(SelectSeq(all_tasks, LAMBDA t : t.status # "completed"),
            0, max_list_items)

\* lines 354-356: the tasks that are not completed, newest first, cut to
\* max_list_items
Snapshot(all_tasks) ==
    PySlice(SortByCreationTime(
               SelectSeq(all_tasks, LAMBDA t : t.status # "completed")),
            0, max_list_items)

DelTasks_Everyone(sessions, u) ==
    [v \in Users |-> [sessions[v] EXCEPT !.displayed_tasks = <<>>,
                                         !.has_tasks = FALSE]]

\* del context.user_data['displayed_tasks']
DelTasks(sessions, u) ==
    [sessions EXCEPT ![u].displayed_tasks = <<>>, ![u].has_tasks = FALSE]

\* lines 968-971: the finished tasks are deleted by one api_call each, all
\* gathered (each of these frames runs as the gateway specification shows);
\* a ValueError of the fetch is not caught here
ClearListed(p, lists) ==
    /\ pc[p] = "clear_list" /\ CallEnded(p)
    /\ call' = [call EXCEPT ![p] = NoCall]
    /\ IF call[p].phase = "raised"
       THEN Finished(p, [obs[p] EXCEPT !.crashed = TRUE])
       ELSE \E all_tasks \in lists :
               /\ obs' = [obs EXCEPT
                            ![p].listed = all_tasks,
                            ![p].bulk = Len(TasksToDelete(all_tasks))]
               /\ pc' = [pc EXCEPT ![p] = "clear_gather"]
    /\ UNCHANGED <<today, ep_list, user_ops, admin_ids, user_data, ev, hist,
                   auto_reset, api_key, srv_key>>

\* lines 971-973: gather returns once every delete succeeded, or raises the
\* first ValueError of a delete (the other deletes still run); only after
\* a return is the count len(tasks_to_delete) answered, the cached task
\* list dropped and the list shown again
ClearGathered(p) ==
    /\ pc[p] = "clear_gather"
    /\ \E removed \in 0..obs[p].bulk :
          IF removed = obs[p].bulk
          THEN /\ user_data' = DelTasks(user_data, ev[p].user)
               /\ pc' = [pc EXCEPT ![p] = "tasks_status"]
               /\ obs' = [obs EXCEPT ![p].removed = removed,
                                     ![p].reported = obs[p].bulk]
          ELSE /\ user_data' = user_data
               /\ Finished(p, [obs[p] EXCEPT !.removed = removed,
                                             !.crashed = TRUE])
    /\ UNCHANGED <<today, ep_list, user_ops, admin_ids, ev, hist, gwVars>>

\* lines 830-835: /tasks drops the cached list, then lists the tasks
CmdTasks(p, users) ==
    /\ pc[p] = "idle"
    /\ \E u \in users :
          /\ ev' = [ev EXCEPT ![p] = [NoEvent EXCEPT !.user = u,
                                   !.kind = "command", !.action = "tasks"]]
          /\ obs' = [obs EXCEPT ![p] = [NoObs EXCEPT !.sess = user_data[u]]]
          /\ user_data' = DelTasks(user_data, u)
    /\ pc' = [pc EXCEPT ![p] = "tasks_status"]
    /\ UNCHANGED <<today, ep_list, user_ops, admin_ids, hist, gwVars>>

\* lines 959-965 and 352: view_tasks and refresh_tasks drop the cached list,
\* then list the tasks (line 352 fetches when there is no cached list)
CbViewTasks(p) ==
    LET u == ev[p].user IN
    /\ pc[p] = "answer" /\ ev[p].action \in {"view_tasks", "refresh_tasks"}
    /\ obs' = [obs EXCEPT ![p].sess = user_data[u]]
    /\ user_data' = DelTasks(user_data, u)
    /\ pc' = [pc EXCEPT ![p] = IF user_data'[u].has_tasks THEN "done"
                               ELSE "tasks_status"]
    /\ UNCHANGED <<today, ep_list, user_ops, admin_ids, ev, hist, gwVars>>

\* lines 885-887 and 352: tasks_page_prev / tasks_page_next show a page of the
\* cached list, and fetch only if there is none
CbPageTasks(p) ==
    LET u == ev[p].user
        o == [obs[p] EXCEPT !.sess = user_data[u]] IN
    /\ pc[p] = "answer"
    /\ ev[p].action \in {"tasks_page_prev", "tasks_page_next"}
    /\ IF user_data[u].has_tasks
       THEN Finished(p, o)
       ELSE /\ pc' = [pc EXCEPT ![p] = "tasks_status"]
            /\ obs' = [obs EXCEPT ![p] = o]
    /\ UNCHANGED <<today, ep_list, user_ops, admin_ids, user_data, ev, hist,
                   gwVars>>

\* line 353: _display_tasks_list fetches the tasks
TasksSend(p) ==
    /\ pc[p] = "tasks_status"
    /\ Invoke(p, "tasks_exec", obs[p])
    /\ UNCHANGED <<today, ep_list, user_ops, admin_ids, user_data, ev, hist,
                   auto_reset, api_key, srv_key>>

\* lines 353-356 and 424-425: the fetched tasks become displayed_tasks; a
\* ValueError of the fetch is reported and nothing is cached
TasksDone(p, lists) ==
    /\ pc[p] = "tasks_exec" /\ CallEnded(p)
    /\ call' = [call EXCEPT ![p] = NoCall]
    /\ pc' = [pc EXCEPT ![p] = "done"]
    /\ obs' = [obs EXCEPT ![p].failed = (call[p].phase = "raised")]
    /\ IF call[p].phase = "raised"
       THEN user_data' = user_data
       ELSE \E all_tasks \in lists :
               user_data' = [user_data EXCEPT
                               ![ev[p].user].displayed_tasks =
                                   Snapshot(all_tasks),
                               ![ev[p].user].has_tasks = TRUE]
    /\ UNCHANGED <<today, ep_list, user_ops, admin_ids, ev, hist,
                   auto_reset, api_key, srv_key>>

DelLibrary_Keep(sessions, u) == sessions

\* del context.user_data['displayed_library']
DelLibrary(sessions, u) ==
    [sessions EXCEPT ![u].displayed_library = <<>>, ![u].has_library = FALSE]

\* lines 836-841: /library drops the cached library, then lists it
CmdLibrary(p, users) ==
    /\ pc[p] = "idle"
    /\ \E u \in users :
          /\ ev' = [ev EXCEPT ![p] = [NoEvent EXCEPT !.user = u,
                                   !.kind = "command", !.action = "library"]]
          /\ obs' = [obs EXCEPT ![p] = [NoObs EXCEPT !.sess = user_data[u]]]
          /\ user_data' = DelLibrary(user_data, u)
    /\ pc' = [pc EXCEPT ![p] = "library_status"]
    /\ UNCHANGED <<today, ep_list, user_ops, admin_ids, hist, gwVars>>

\* lines 983-985 and 436: refresh_library and view_library drop the cached
\* library, then list it (line 436 fetches when there is no cached library)
CbViewLibrary(p) ==
    LET u == ev[p].user IN
    /\ pc[p] = "answer"
    /\ ev[p].action \in {"view_library", "refresh_library"}
    /\ obs' = [obs EXCEPT ![p].sess = user_data[u]]
    /\ user_data' = DelLibrary(user_data, u)
    /\ pc' = [pc EXCEPT ![p] = IF user_data'[u].has_library THEN "done"
                               ELSE "library_status"]
    /\ UNCHANGED <<today, ep_list, user_ops, admin_ids, ev, hist, gwVars>>

\* lines 888-890 and 436: lib_page_prev / lib_page_next show a page
\* of the cached library, and fetch only if there is none
CbPageLibrary(p) ==
    LET u == ev[p].user
        o == [obs[p] EXCEPT !.sess = user_data[u]] IN
    /\ pc[p] = "answer"
    /\ ev[p].action \in {"lib_page_prev", "lib_page_next"}
    /\ IF user_data[u].has_library
       THEN Finished(p, o)
       ELSE /\ pc' = [pc EXCEPT ![p] = "library_status"]
            /\ obs' = [obs EXCEPT ![p] = o]
    /\ UNCHANGED <<today, ep_list, user_ops, admin_ids, user_data, ev, hist,
                   gwVars>>

\* line 437: _display_library fetches the library
LibrarySend(p) ==
    /\ pc[p] = "library_status"
    /\ Invoke(p, "library_exec", obs[p])
    /\ UNCHANGED <<today, ep_list, user_ops, admin_ids, user_data, ev, hist,
                   auto_reset, api_key, srv_key>>

\* lines 437-438 and 489-490: the fetched library becomes displayed_library
\* as it is; a ValueError of the fetch is reported and nothing is cached
LibraryDone(p) ==
    /\ pc[p] = "library_exec" /\ CallEnded(p)
    /\ call' = [call EXCEPT ![p] = NoCall]
    /\ pc' = [pc EXCEPT ![p] = "done"]
    /\ obs' = [obs EXCEPT ![p].failed = (call[p].phase = "raised")]
    /\ IF call[p].phase = "raised"
       THEN user_data' = user_data
       ELSE \E n \in 0..MaxItem :
               user_data' = [user_data EXCEPT
                               ![ev[p].user].displayed_library = Items(n),
                               ![ev[p].user].has_library = TRUE]
    /\ UNCHANGED <<today, ep_list, user_ops, admin_ids, ev, hist,
                   auto_reset, api_key, srv_key>>

\* lines 975-977: a privileged user's per-task action; line 976 raises
\* IndexError for an index outside displayed_tasks, and otherwise line 977
\* raises NameError (CallbackCallbackAction) while building action_map, so
\* line 979 is never reached
CbTaskAction(p) ==
    /\ GateOpen(p) /\ ev[p].action \in TaskActions
    /\ Privileged(ev[p].user)
    /\ Finished(p, [obs[p] EXCEPT !.crashed = TRUE])
    /\ UNCHANGED <<today, ep_list, user_ops, admin_ids, user_data, ev, hist, gwVars>>

-----------------------------------------------------------------------------
(* Rendering of a page *)

PageItems_OffByOne(list, page, page_size) ==
    PySlice(list, page * page_size, (page + 1) * page_size)

\* lines 360-362, 442-444 and 506: the items of page `page`
PageItems(list, page, page_size) ==
    PySlice(list, (page - 1) * page_size, page * page_size)

\* lines 364, 446 and 512: (len + page_size - 1) // page_size or 1
TotalPages(len, page_size) ==
    LET pages == (len + page_size - 1) \div page_size IN
    IF pages = 0 THEN 1 ELSE pages

\* lines 401, 469 and 513: the previous button
HasPrev(page) == page > 1

\* lines 403, 471 and 515: the next button
HasNext(page, total_pages) == page < total_pages

\* line 624: the results shown from the cursor on
SearchItems(list, start_index, page_size) ==
    PySlice(list, start_index, start_index + page_size)

\* line 640
SearchHasPrev(start_index) == start_index > 0

\* line 641
SearchHasNext(len, start_index, page_size) == len > start_index + page_size

\* page `page` of a cached task, library or episode list is rendered
RenderPaged(p) ==
    /\ pc[p] = "idle"
    /\ \E kind \in {"tasks", "library", "episodes"}, len \in 0..MaxCursor,
          page_size \in 1..MaxItem, page \in 1..MaxCursor :
          obs' = [obs EXCEPT ![p].view =
             [kind |-> kind, len |-> len, page_size |-> page_size,
              page |-> page,
              items |-> PageItems(Items(len), page, page_size),
              prev |-> HasPrev(page),
              next |-> HasNext(page, TotalPages(len, page_size))]]
    /\ pc' = [pc EXCEPT ![p] = "done"]
    /\ UNCHANGED <<today, ep_list, user_ops, admin_ids, user_data, ev, hist,
                   gwVars>>

\* the search results are rendered at a cursor (a multiple of the page size)
RenderSearch(p) ==
    /\ pc[p] = "idle"
    /\ \E len \in 0..MaxCursor, page_size \in 1..MaxItem, n \in 0..MaxCursor :
          /\ n * page_size <= MaxCursor
          /\ obs' = [obs EXCEPT ![p].view =
                [kind |-> "search", len |-> len, page_size |-> page_size,
                 page |-> n * page_size,
                 items |-> SearchItems(Items(len), n * page_size, page_size),
                 prev |-> SearchHasPrev(n * page_size),
                 next |-> SearchHasNext(len, n * page_size, page_size)]]
    /\ pc' = [pc EXCEPT ![p] = "done"]
    /\ UNCHANGED <<today, ep_list, user_ops, admin_ids, user_data, ev, hist,
                   gwVars>>

-----------------------------------------------------------------------------
(* Command handlers *)

\* a command of user u arrives and runs through the decorator (527-552)
Wrapped(p, e, next) ==
    LET u == e.user
        g == WrapperLimit(user_ops, u) IN
    /\ pc[p] = "idle"
    /\ u \notin admin_ids => CanCheck(u)
    /\ ev' = [ev EXCEPT ![p] = [e EXCEPT !.kind = "command"]]
    /\ user_ops' = g.ops
    /\ hist' = IF u \in admin_ids THEN hist
               ELSE HistAfter(user_ops, u, g, "wrapped")
    /\ obs' = [obs EXCEPT ![p] =
                 IF u \in admin_ids THEN NoObs
                 ELSE Observe(NoObs, user_ops, u, g, 0)]
    /\ pc' = [pc EXCEPT ![p] = IF g.allowed THEN next ELSE "done"]

\* lines 591-604: /search; without a keyword it only prints the usage
CmdSearch(p, users) ==
    /\ \E u \in users, arg \in {"none", "text"} :
          Wrapped(p, [NoEvent EXCEPT !.user = u, !.action = "search",
                                     !.arg = arg],
                  IF arg = "none" THEN "done" ELSE "search_status")
    /\ UNCHANGED <<today, ep_list, admin_ids, user_data, gwVars>>

\* the terms a user can type: one word alone, or a season indicator with or
\* without words before it
AllTerms ==
    {t \in [base : 0..1, suffix : {"none", "marker", "cn_marker", "integer"},
            n : 0..MaxSeason] :
        t.suffix = "none" => t.base = 1 /\ t.n = 0}

\* a plain title and a title with a season marker
QuotaTerms == {[base |-> 1, suffix |-> "none", n |-> 0],
               [base |-> 1, suffix |-> "marker", n |-> 1]}

\* lines 131-150: digits are read as they stand (0 included); numerals give
\* a positive number or None
ChineseToArabic(suffix, n) ==
    IF suffix = "marker" THEN n ELSE IF n > 0 THEN n ELSE None

\* lines 674-689: a trailing marker is cut off and converted; without a
\* season, a last word of digits after other words is the season if positive
ParseSeason(term) ==
    LET matched == term.suffix \in {"marker", "cn_marker"}
        stripped == [term EXCEPT !.suffix = "none", !.n = 0]
        season == IF matched THEN ChineseToArabic(term.suffix, term.n)
                  ELSE None
        final_term == IF matched THEN stripped ELSE term IN
    IF season = None /\ final_term.suffix = "integer"
          /\ final_term.base >= 1 /\ final_term.n > 0
    THEN [final_term |-> stripped, season |-> final_term.n]
    ELSE [final_term |-> final_term, season |-> season]

DirectImport_IgnoresUrl(season, is_from_url) == season \notin {None, 0}

\* line 691: if season and not is_from_url
DirectImport(season, is_from_url) ==
    season \notin {None, 0} /\ ~is_from_url

\* lines 691-702: the request import_command goes on to make
ImportRequest(term, is_from_url) ==
    LET r == ParseSeason(term) IN
    IF DirectImport(r.season, is_from_url)
    THEN [NoReq EXCEPT !.kind = "import", !.term = r.final_term,
                       !.media_type = "tv_series", !.season = r.season]
    ELSE [NoReq EXCEPT !.kind = "search", !.term = r.final_term]

\* lines 646-699: /import; a URL is resolved first, a season is imported
\* directly, anything else is searched
CmdImport(p, users, terms) ==
    /\ \E u \in users, arg \in {"none", "url", "text"},
          t \in terms \cup {NoTerm} :
          LET req == IF arg = "text" THEN ImportRequest(t, FALSE)
                     ELSE NoReq IN
          /\ arg = "text" <=> t # NoTerm
          /\ Wrapped(p, [NoEvent EXCEPT !.user = u, !.action = "import",
                                        !.arg = arg, !.term = t, !.req = req],
                     CASE arg = "none" -> "done"
                       [] arg = "url" -> "resolve"
                       [] req.kind = "import" -> "import_status"
                       [] OTHER -> "search_status")
    /\ UNCHANGED <<today, ep_list, admin_ids, user_data, gwVars>>

\* lines 666-672 and 674-699: _get_title_from_url returned a title or
\* nothing; the title is parsed like a typed term
ImportResolved(p, titles) ==
    /\ pc[p] = "resolve"
    /\ \E t \in titles \cup {NoTerm} :
          LET req == ImportRequest(t, TRUE) IN
          /\ ev' = [ev EXCEPT ![p].term = t,
                              ![p].req = IF t = NoTerm THEN NoReq ELSE req]
          /\ pc' = [pc EXCEPT ![p] =
                      CASE t = NoTerm -> "done"
                        [] req.kind = "import" -> "import_status"
                        [] OTHER -> "search_status"]
    /\ UNCHANGED <<today, ep_list, user_ops, admin_ids, user_data, obs, hist,
                   gwVars>>

\* lines 607 and 702: the search request is sent
SearchSend(p) ==
    /\ pc[p] = "search_status"
    /\ Invoke(p, "search_exec", obs[p])
    /\ UNCHANGED <<today, ep_list, user_ops, admin_ids, user_data, ev, hist,
                   auto_reset, api_key, srv_key>>

\* lines 608-616 and 702-710: a non-empty result list is cached, cursor 0
SearchDone(p) ==
    /\ pc[p] = "search_exec" /\ CallEnded(p)
    /\ call' = [call EXCEPT ![p] = NoCall]
    /\ pc' = [pc EXCEPT ![p] = "done"]
    /\ IF call[p].phase = "raised"
       THEN user_data' = user_data
       ELSE \E n \in 0..MaxItem :
               user_data' =
                  IF n = 0 THEN user_data
                  ELSE [user_data EXCEPT
                          ![ev[p].user].last_search_results = Items(n),
                          ![ev[p].user].search_start_index = 0]
    /\ UNCHANGED <<today, ep_list, user_ops, admin_ids, ev, obs, hist,
                   auto_reset, api_key, srv_key>>

\* line 791: the items of the library that match the keyword, in order
Matched(library_items, matched) ==
    SelectSeq(library_items, LAMBDA item : item \in matched)

\* lines 783-788: /remove is for privileged users
CmdRemove(p, users) ==
    /\ pc[p] = "idle"
    /\ \E u \in users, arg \in {"all", "keyword"} :
          /\ ev' = [ev EXCEPT ![p] = [NoEvent EXCEPT !.user = u,
                       !.kind = "command", !.action = "remove", !.arg = arg]]
          /\ pc' = [pc EXCEPT ![p] =
                      IF Privileged(u) THEN "remove_status" ELSE "done"]
    /\ obs' = [obs EXCEPT ![p] = NoObs]
    /\ UNCHANGED <<today, ep_list, user_ops, admin_ids, user_data, hist, gwVars>>

\* line 790: the library is fetched
RemoveSend(p) ==
    /\ pc[p] = "remove_status"
    /\ Invoke(p, "remove_exec", obs[p])
    /\ UNCHANGED <<today, ep_list, user_ops, admin_ids, user_data, ev, hist,
                   auto_reset, api_key, srv_key>>

\* lines 791-815: the matching items become remove_list (every item when
\* there is no keyword)
RemoveDone(p) ==
    /\ pc[p] = "remove_exec" /\ CallEnded(p)
    /\ call' = [call EXCEPT ![p] = NoCall]
    /\ pc' = [pc EXCEPT ![p] = "done"]
    /\ IF call[p].phase = "raised"
       THEN user_data' = user_data
       ELSE \E n \in 0..MaxItem : \E matched \in SUBSET (1..n) :
               /\ ev[p].arg = "all" => matched = 1..n
               /\ user_data' =
                    [user_data EXCEPT ![ev[p].user].remove_list =
                                         Matched(Items(n), matched)]
    /\ UNCHANGED <<today, ep_list, user_ops, admin_ids, ev, obs, hist,
                   auto_reset, api_key, srv_key>>

\* lines 749-770: /add_admin of a privileged user adds an identity
CmdAddAdmin(p, users, ids) ==
    /\ pc[p] = "idle"
    /\ \E u \in users, new_admin_id \in ids :
          /\ ev' = [ev EXCEPT ![p] = [NoEvent EXCEPT !.user = u,
                       !.kind = "command", !.action = "add_admin",
                       !.arg = new_admin_id]]
          /\ admin_ids' = IF u \in admin_ids
                          THEN admin_ids \cup {new_admin_id} ELSE admin_ids
    /\ pc' = [pc EXCEPT ![p] = "done"]
    /\ obs' = [obs EXCEPT ![p] = NoObs]
    /\ UNCHANGED <<today, ep_list, user_ops, user_data, hist, gwVars>>

-----------------------------------------------------------------------------
(* The environment and the specifications *)

\* midnight: date.today() changes
Tick ==
    /\ today < MaxDay
    /\ today' = today + 1
    /\ UNCHANGED <<user_ops, ep_list, admin_ids, user_data, pc, ev, obs, hist,
                   gwVars>>

\* the handler coroutine has ended (hist keeps the toggle it was, if it was
\* one, for observation only)
Finish(p) ==
    /\ pc[p] = "done"
    /\ pc' = [pc EXCEPT ![p] = "idle"]
    /\ ev' = [ev EXCEPT ![p] = NoEvent]
    /\ obs' = [obs EXCEPT ![p] = NoObs]
    /\ hist' = [hist EXCEPT ![ev[p].user].last =
                  IF ev[p].action = "toggle_episode"
                  THEN <<ev[p].id, ev[p].ep, obs[p].was>> ELSE <<>>]
    /\ UNCHANGED <<today, ep_list, user_ops, admin_ids, user_data, gwVars>>

\* the server answers a request with 200, a hard status or not at all
ApiAnswer(p) == ApiResponseFrom(p, {200, 500, RequestError})

\* the Application is built without concurrent_updates (line 1050): it runs
\* one handler at a time, in task Main
Main == 1

\* auto_reset is read only after a 401 or a 429 (line 315)
Init == InitShared /\ auto_reset = FALSE

\* the quota specification: u1 sends every update, becomes privileged when
\* the administrator says so; the administrator and u2 send gated actions
QuotaCallbacks ==
    GatedActions \cup
    {"page_prev", "page_next", "cancel_message", "show_episodes", "undecodable"}

Handler(p) ==
    \/ RecvCallback(p, {"u1"}, QuotaCallbacks)
    \/ RecvCallback(p, {Admin, "u2"}, {"confirm_import_tv", "exec_del"})
    \/ CbUndecodable(p) \/ CbCancel(p) \/ CbDenied(p)
    \/ CbPage(p) \/ CbNoBranch(p)
    \/ CbImportItem(p) \/ CbImportLibrary(p, KnownLibraries)
    \/ CbConfirmImport(p)
    \/ ImportSend(p) \/ ImportDone(p)
    \/ CbBatchImport(p) \/ CbDeleteLookup(p)
    \/ CmdSearch(p, {"u1"}) \/ CmdImport(p, {"u1"}, QuotaTerms)
    \/ ImportResolved(p, QuotaTerms) \/ SearchSend(p) \/ SearchDone(p)
    \/ CmdAddAdmin(p, {Admin}, {"u1"})
    \/ Finish(p)

Next == Tick \/ Handler(Main) \/ ApiAnswer(Main)

\* the dispatcher and the quota ledger, one update at a time, against a
\* server that answers each request with 200, a hard error or a transport
\* failure
Spec == Init /\ [][Next]_vars

\* the interleaving the design allows: two updates of one user in flight,
\* each suspended at its awaits
ConcurrentHandler(p) ==
    \/ RecvCallback(p, {"u1"}, {"import_item", "confirm_import_tv"})
    \/ CbDenied(p)
    \/ CbImportItem(p) \/ CbImportLibrary(p, KnownLibraries)
    \/ CbConfirmImport(p)
    \/ ImportSend(p) \/ ImportDone(p)
    \/ CmdSearch(p, {"u1"}) \/ SearchSend(p) \/ SearchDone(p)
    \/ Finish(p)

ConcurrentNext == Tick \/ \E p \in Procs : ConcurrentHandler(p) \/ ApiAnswer(p)

SpecConcurrent == Init /\ [][ConcurrentNext]_vars

\* the episode selection: one user pages, toggles, selects all, clears and
\* submits for two work items (a privileged one, so that the quota does not
\* interfere), and a second user looks at the same work items
EpisodeHandler(p) ==
    \/ RecvEpisode(p, {Admin}, SelectionActions)
    \/ RecvEpisode(p, {"u1"}, {"page_episodes"})
    \/ RecvCallback(p, {Admin}, {"batch_import"})
    \/ CbPageEpisodes(p) \/ CbToggleEpisode(p)
    \/ CbSelectAll(p) \/ CbClearSelection(p)
    \/ EpisodesFetched(p)
    \/ CbBatchImport(p) \/ BatchSend(p) \/ BatchDone(p) \/ BatchClear(p)
    \/ Finish(p)

EpisodeNext == EpisodeHandler(Main) \/ ApiAnswer(Main)

SpecEpisodes == Init /\ [][EpisodeNext]_vars

\* /import alone, with every form of term and of URL title (a privileged
\* user, so that the quota does not interfere)
ImportNext ==
    \/ CmdImport(Main, {Admin}, AllTerms) \/ ImportResolved(Main, AllTerms)
    \/ ImportSend(Main) \/ ImportDone(Main)
    \/ SearchSend(Main) \/ SearchDone(Main)
    \/ Finish(Main) \/ ApiAnswer(Main)

SpecImport == Init /\ [][ImportNext]_vars

\* the task list of a privileged user: /tasks, view, refresh, paging, the
\* per-task actions and clear_tasks, against a server whose tasks come in
\* any order, with any status and creation time
TaskCallbacks ==
    TaskActions \cup {"view_tasks", "refresh_tasks", "tasks_page_prev",
                      "tasks_page_next", "clear_tasks"}

TasksNext ==
    \/ RecvCallback(Main, {Admin}, TaskCallbacks) \/ CmdTasks(Main, {Admin})
    \/ CbViewTasks(Main) \/ CbPageTasks(Main) \/ CbTaskAction(Main)
    \/ CbClearCompleted(Main) \/ ClearSend(Main)
    \/ ClearListed(Main, TaskLists(TaskStatuses, {1}, MaxTask))
    \/ ClearGathered(Main) \/ TasksSend(Main)
    \/ TasksDone(Main, TaskLists({"completed", "running", "failed"},
                                 {1, 2}, MaxTask))
    \/ Finish(Main) \/ ApiAnswer(Main)

SpecTasks == Init /\ [][TasksNext]_vars

\* two users list and page their tasks, their updates interleaved at every
\* await, against a server that answers 200 or a hard error
SessionsNext ==
    \E p \in Procs :
        \/ CmdTasks(p, {"u1", "u2"})
        \/ RecvCallback(p, {"u1", "u2"}, {"tasks_page_next"})
        \/ CbPageTasks(p) \/ TasksSend(p)
        \/ TasksDone(p, TaskLists({"running"}, {1}, 1))
        \/ Finish(p) \/ ApiResponseFrom(p, {200, 500})

SpecSessions == Init /\ [][SessionsNext]_vars

\* the listings of an ordinary user: /tasks and /library, view, refresh and
\* paging of both, against a server whose tasks and library change between
\* the fetches
ListingCallbacks ==
    {"view_tasks", "refresh_tasks", "tasks_page_prev", "tasks_page_next",
     "view_library", "refresh_library", "lib_page_prev",
     "lib_page_next"}

ListingNext ==
    \/ RecvCallback(Main, {"u1"}, ListingCallbacks)
    \/ CmdTasks(Main, {"u1"}) \/ CmdLibrary(Main, {"u1"})
    \/ CbViewTasks(Main) \/ CbPageTasks(Main) \/ TasksSend(Main)
    \/ TasksDone(Main, TaskLists({"running", "completed"}, {1, 2}, MaxTask))
    \/ CbViewLibrary(Main) \/ CbPageLibrary(Main) \/ LibrarySend(Main)
    \/ LibraryDone(Main)
    \/ Finish(Main) \/ ApiAnswer(Main)

SpecListing == Init /\ [][ListingNext]_vars

\* import_item of a privileged user against a library of any items
DuplicateNext ==
    \/ RecvCallback(Main, {Admin}, {"import_item"})
    \/ CmdSearch(Main, {Admin}) \/ SearchSend(Main) \/ SearchDone(Main)
    \/ CbImportItem(Main)
    \/ CbImportLibrary(Main, UNION {[1..n -> LibraryItems] :
                                       n \in 0..MaxLibrary})
    \/ ImportSend(Main) \/ ImportDone(Main)
    \/ Finish(Main) \/ ApiResponseFrom(Main, {200, 500})

SpecDuplicate == Init /\ [][DuplicateNext]_vars

\* the rendering functions applied once to every list length, page size and
\* page
PagingNext == RenderPaged(Main) \/ RenderSearch(Main)

SpecPaging == Init /\ [][PagingNext]_vars

\* the library specification: the administrator and u1 send /remove, the
\* deletion actions, clear_tasks and the per-task actions
LibraryCallbacks ==
    TaskActions \cup {"clear_tasks", "req_del_confirm", "exec_del", "cancel_del"}

LibraryHandler(p) ==
    \/ RecvCallback(p, {Admin, "u1"}, LibraryCallbacks)
    \/ CbDenied(p) \/ CbNoBranch(p)
    \/ CbDeleteLookup(p) \/ DeleteSend(p) \/ DeleteDone(p)
    \/ CbClearCompleted(p) \/ ClearSend(p)
    \/ ClearListed(p, TaskLists({"failed"}, {1}, MaxItem))
    \/ ClearGathered(p) \/ TasksSend(p)
    \/ TasksDone(p, TaskLists({"running"}, {1}, MaxItem))
    \/ CbTaskAction(p)
    \/ CmdRemove(p, {Admin, "u1"}) \/ RemoveSend(p) \/ RemoveDone(p)
    \/ Finish(p)

LibraryNext == LibraryHandler(Main) \/ ApiAnswer(Main)

SpecLibrary == Init /\ [][LibraryNext]_vars

-----------------------------------------------------------------------------
(* The gateway on its own: concurrent callers of api_call, every response *)

\* a coroutine calls api_call
GwCall(p) ==
    /\ pc[p] = "idle"
    /\ pc' = [pc EXCEPT ![p] = "api"]
    /\ call' = [call EXCEPT ![p] = NewCall]
    /\ UNCHANGED <<auto_reset, api_key, srv_key, appVars, hist>>

\* api_call returned or raised
GwDone(p) ==
    /\ pc[p] = "api"
    /\ CallEnded(p)
    /\ pc' = [pc EXCEPT ![p] = "idle"]
    /\ call' = [call EXCEPT ![p] = NoCall]
    /\ UNCHANGED <<auto_reset, api_key, srv_key, appVars, hist>>

GwInit == InitShared

GwNext == \E p \in Procs : GwCall(p) \/ Gateway(p) \/ GwDone(p)

SpecGateway == GwInit /\ [][GwNext]_vars

\* one caller at a time; every request is answered or times out
\* (request_timeout, line 51), every sleep ends and the caller takes the
\* result
CallNext == GwCall(1) \/ Gateway(1) \/ GwDone(1)

SpecCall ==
    GwInit /\ [][CallNext]_vars /\ WF_vars(Gateway(1) \/ GwDone(1))

-----------------------------------------------------------------------------
(* Quota claims *)

\* C1: for a non-privileged user whose checks since the ledger's reset were
\* all gated action events, the k-th is allowed and leaves the count k while
\* k <= user_daily_limit; the next ones are denied and leave it at the limit.
C1_QuotaMonotonicity ==
    \A p \in Procs :
        (obs[p].checked /\ ev[p].action \in GatedActions /\ obs[p].nth > 0) =>
            IF obs[p].nth <= user_daily_limit
            THEN ~obs[p].denied /\ obs[p].after = obs[p].nth
            ELSE obs[p].denied /\ obs[p].after = user_daily_limit

C1_Witness ==
    \E p \in Procs :
        /\ ev[p].action \in GatedActions
        /\ obs[p].nth = user_daily_limit + 1
        /\ obs[p].denied
        /\ Count(user_ops, ev[p].user) = user_daily_limit

\* C2: the count of a non-privileged user never exceeds user_daily_limit,
\* and while the recorded date stays the same no count decreases.
C2_QuotaInvariant ==
    [][/\ \A u \in Users \ admin_ids : Count(user_ops, u) <= user_daily_limit
       /\ \A u \in Users \ admin_ids' : Count(user_ops', u) <= user_daily_limit
       /\ user_ops'.date = user_ops.date =>
             \A u \in Users : Count(user_ops', u) >= Count(user_ops, u)]_vars

C2_Witness ==
    /\ "u1" \notin admin_ids
    /\ Count(user_ops, "u1") = user_daily_limit
    /\ Count(user_ops, "u2") > 0
    /\ user_ops.date > 0

\* C3: with two updates of one user in flight, every allowed check is one
\* stored increment (none lost), at most user_daily_limit checks are allowed
\* per ledger day, and of two checks made on the same day at the boundary
\* (one finding user_daily_limit - 1) exactly one is allowed and the count
\* ends at the limit.
C3_QuotaAtomicity ==
    /\ \A u \in Users \ admin_ids :
          /\ hist[u].allowed = Count(user_ops, u)
          /\ hist[u].allowed <= user_daily_limit
    /\ \A p, q \in Procs :
          (/\ p # q
           /\ obs[p].checked /\ obs[q].checked
           /\ ev[p].user = ev[q].user
           /\ obs[p].day = obs[q].day
           /\ obs[p].day = user_ops.date
           /\ obs[p].before = user_daily_limit - 1
           /\ obs[q].before >= user_daily_limit - 1) =>
              /\ ~obs[p].denied
              /\ obs[q].denied
              /\ Count(user_ops, ev[p].user) = user_daily_limit

C3_Witness ==
    \E p, q \in Procs :
        /\ p # q
        /\ ev[p].user = ev[q].user
        /\ obs[p].checked /\ obs[q].checked
        /\ obs[p].day = obs[q].day
        /\ obs[p].before = user_daily_limit - 1 /\ ~obs[p].denied
        /\ pc[p] = "import_lib"
        /\ obs[q].denied

\* the check of task p runs in this step
Checks(p) == ~obs[p].checked /\ obs'[p].checked

\* C4: a check made on a day other than the recorded date sets the date to
\* today, drops every count and then allows the user with count 1; a check
\* made on the recorded date drops no count.
C4_QuotaReset ==
    [][\A p \in Procs :
          Checks(p) =>
            IF user_ops.date # today
            THEN /\ user_ops'.date = today
                 /\ DOMAIN user_ops'.counts = {ev'[p].user}
                 /\ user_ops'.counts[ev'[p].user] = 1
                 /\ ~obs'[p].denied
            ELSE /\ user_ops'.date = user_ops.date
                 /\ \A v \in DOMAIN user_ops.counts :
                       /\ v \in DOMAIN user_ops'.counts
                       /\ user_ops'.counts[v] >= user_ops.counts[v]]_vars

C4_Witness ==
    \E p \in Procs :
        /\ obs[p].checked /\ obs[p].stale
        /\ ev[p].action \in GatedActions
        /\ obs[p].prior = user_daily_limit
        /\ ~obs[p].denied
        /\ user_ops.date = today
        /\ user_ops.counts = (ev[p].user :> 1)

\* the user whose update task p is running in this step
Actor(p) == IF pc[p] = "idle" THEN ev'[p].user ELSE ev[p].user

\* C5: no step of a privileged user's command or action event changes the
\* quota record, runs the check or is denied.
C5_PrivilegedBypass ==
    [][\A p \in Procs :
          (pc'[p] # pc[p] /\ Actor(p) \in admin_ids) =>
              /\ user_ops' = user_ops
              /\ ~obs'[p].checked
              /\ ~obs'[p].denied]_vars

C5_Witness ==
    \E p \in Procs :
        /\ ev[p].user = "u1" /\ "u1" \in admin_ids
        /\ ev[p].action \in GatedActions
        /\ pc[p] \notin {"idle", "answer"}
        /\ ~obs[p].checked /\ ~obs[p].denied
        /\ Count(user_ops, "u1") = user_daily_limit
        /\ user_ops.date # today

\* C6 as stated: the step that denies an update for quota changes neither the
\* quota record nor any session, and the update has issued no remote call.
C6_DenialMutatesNothing ==
    [][\A p \in Procs :
          (~obs[p].denied /\ obs'[p].denied) =>
              /\ user_data' = user_data
              /\ user_ops' = user_ops
              /\ obs'[p].calls = 0]_vars

\* C7 as stated: an action event outside the five gated variants is never
\* denied for quota and leaves the user's count as it was.
C7_OnlyFiveGated ==
    \A p \in Procs :
        (ev[p].kind = "callback" /\ ev[p].action \notin GatedActions) =>
            /\ ~obs[p].denied
            /\ ~obs[p].checked
            /\ obs[p].after = obs[p].before

-----------------------------------------------------------------------------
(* Gateway claims *)

\* C8 as stated: a call that received 429, 429, 429 and then 200 slept only
\* before attempts 2 and 3 (2 s, 4 s) and returned without a key reset.
C8_ThreeThenOk ==
    \A p \in Procs :
        call[p].resp = <<429, 429, 429, 200>> =>
            /\ call[p].phase = "returned"
            /\ call[p].sleeps = <<2, 4>>
            /\ call[p].resets = 0

\* C8 amended: a call that received 429, 429 and then 200 within its three
\* attempts slept 2 s before attempt 2 and 4 s before attempt 3, sent three
\* requests, returned the result and started no key reset.
C8_BackoffSequence ==
    \A p \in Procs :
        call[p].resp = <<429, 429, 200>> =>
            /\ call[p].phase = "returned"
            /\ call[p].sleeps = <<2, 4>>
            /\ call[p].sleeps[1] < call[p].sleeps[2]
            /\ Len(call[p].sent) = 3
            /\ call[p].resets = 0

C8_Witness ==
    \E p \in Procs :
        call[p].resp = <<429, 429, 200>> /\ call[p].phase = "returned"

\* C9: a 401 answer to a loop attempt is the last thing the loop does: no
\* later loop request, no sleep for it, the reset is marked with reason
\* unauthorized; a 401 on the first attempt leaves exactly one loop request.
C9_UnauthorizedStops ==
    \A p \in Procs : \A i \in 1..Len(call[p].resp) :
        (call[p].resp[i] = 401 /\ call[p].sent[i].stage = "loop") =>
            /\ \A j \in (i + 1)..Len(call[p].sent) :
                   call[p].sent[j].stage = "final"
            /\ Len(call[p].sleeps) = i - 1
            /\ call[p].phase # "sleep"
            /\ call[p].should_trigger_reset
            /\ call[p].reset_reason = "unauthorized"
            /\ (call[p].resets = 0 => Len(call[p].sent) = i)

C9_Witness ==
    \E p \in Procs :
        /\ call[p].resp = <<401>>
        /\ Len(call[p].sent) = 1
        /\ call[p].phase = "login"

\* C10: a hard HTTP status or a transport failure on a loop attempt raises at
\* once: nothing is sent after it, no sleep follows, no key reset is started,
\* also when an earlier 429 had marked the reset.
C10_HardErrorFailsFast ==
    \A p \in Procs : \A i \in 1..Len(call[p].resp) :
        (call[p].resp[i] \notin {200, 401, 429} /\ call[p].sent[i].stage = "loop") =>
            /\ call[p].phase = "raised"
            /\ Len(call[p].sent) = i
            /\ Len(call[p].resp) = i
            /\ Len(call[p].sleeps) = i - 1
            /\ call[p].resets = 0

C10_Witness ==
    \E p \in Procs :
        /\ call[p].resp = <<429, 500>>
        /\ call[p].should_trigger_reset
        /\ auto_reset
        /\ call[p].phase = "raised"

-----------------------------------------------------------------------------
(* Rotation claims *)

\* _reset_api_key of task p is suspended at one of its awaits
Rotating(c) == c.phase \in {"login", "regen", "notify"}

\* the requests a call has sent after its key reset
FinalSends(c) == {i \in 1..Len(c.sent) : c.sent[i].stage = "final"}

\* the retry loop of the call ends in this step on a 401 or on 429 exhaustion
LoopEnds(c, d) ==
    \/ c.phase = "request" /\ Len(d.resp) = Len(c.resp) + 1
                           /\ d.resp[Len(d.resp)] = 401
    \/ c.phase = "sleep" /\ c.attempt + 1 = Retries /\ d # c

\* C11: when the loop ends on 429 exhaustion or a 401 with the reset marked
\* and auto reset enabled, the call starts _reset_api_key once and never
\* again; after a successful reset it sends exactly one more request, with
\* the key active at that moment (no older than the one it installed), and
\* returns iff that answer is 200; a failed reset or a failed final request
\* raises, and a call that raised or returned sends and resets nothing more.
C11_RotationOnce ==
    [][\A p \in Procs :
          LET c == call[p]
              d == call'[p] IN
          /\ d.resets <= 1
          /\ Cardinality(FinalSends(d)) <= d.resets
          /\ LoopEnds(c, d) =>
                IF auto_reset
                THEN d.phase = "login" /\ c.resets = 0 /\ d.resets = 1
                                       /\ d.sent = c.sent
                ELSE d.phase = "raised" /\ d.resets = 0 /\ d.sent = c.sent
          /\ (Rotating(c) /\ d # c) =>
                /\ d.resets = c.resets
                /\ \/ Rotating(d) /\ d.sent = c.sent
                   \/ d.phase = "raised" /\ d.sent = c.sent
                   \/ /\ d.phase = "retry"
                      /\ Len(d.installs) = 1
                      /\ d.sent = Append(c.sent, [key |-> api_key',
                                                  stage |-> "final"])
                      /\ api_key' >= d.installs[1]
          /\ (c.phase = "retry" /\ d # c) =>
                /\ d.sent = c.sent /\ d.resets = c.resets
                /\ Len(d.resp) = Len(c.resp) + 1
                /\ d.phase = IF d.resp[Len(d.resp)] = 200
                             THEN "returned" ELSE "raised"
          /\ (c.phase \in {"returned", "raised"} /\ d # c) => d = NoCall]_vars

C11_Witness ==
    \E p \in Procs :
        /\ call[p].resp = <<429, 429, 429, 200>>
        /\ call[p].sleeps = <<2, 4, 8>>
        /\ call[p].resets = 1
        /\ call[p].installs = <<call[p].sent[4].key>>
        /\ call[p].sent[4].stage = "final"
        /\ call[p].phase = "returned"

\* C12 as stated: at no instant are two executions of _reset_api_key in
\* flight, and two calls that both went through a reset made their final
\* request with the same key.
C12_SingleFlight ==
    /\ Cardinality({p \in Procs : Rotating(call[p])}) <= 1
    /\ \A p, q \in Procs :
          (FinalSends(call[p]) # {} /\ FinalSends(call[q]) # {}) =>
              \A i \in FinalSends(call[p]), j \in FinalSends(call[q]) :
                  call[p].sent[i].key = call[q].sent[j].key

\* C13 as stated: a call whose _reset_api_key reported failure (it raised
\* without a final request) has installed no key.
C13_FailureKeepsKey ==
    \A p \in Procs :
        (/\ call[p].phase = "raised"
         /\ call[p].resets = 1
         /\ FinalSends(call[p]) = {}) => call[p].installs = <<>>

\* C14: every request, in the loop or after a reset, carries the key that
\* is active in the step that sends it, also when another call replaced the
\* key while this one slept.
C14_NoStaleKey ==
    [][\A p \in Procs :
          LET c == call[p]
              d == call'[p] IN
          Len(d.sent) > Len(c.sent) =>
              /\ Len(d.sent) = Len(c.sent) + 1
              /\ d.sent[Len(d.sent)].key = api_key']_vars

C14_Witness ==
    \E p \in Procs :
        /\ Len(call[p].sent) = 2
        /\ call[p].sent[1] = [key |-> InitialKey, stage |-> "loop"]
        /\ call[p].sent[2].stage = "loop"
        /\ call[p].sent[2].key # InitialKey
        /\ call[p].sent[2].key = api_key
        /\ call[p].installs = <<>>

-----------------------------------------------------------------------------
(* Privileged flows *)

\* the update of task p has the library delete (line 993) in flight or done
DeleteIssued(p) == pc[p] = "del_exec"

\* the update of task p is past the privilege test of a control verb
ControlVerb(p) ==
    pc[p] \in {"del_status", "del_exec", "clear_status", "clear_list",
               "clear_gather", "remove_status", "remove_exec"}

\* C15 as stated: a library delete is issued for an item only if a
\* req_del_confirm of the same session showed the confirmation for that
\* index and that item before.
C15_DeleteAfterConfirm ==
    \A p \in Procs :
        DeleteIssued(p) =>
            <<ev[p].idx, ev[p].sel>> \in hist[ev[p].user].confirmed

\* C16: only an update of a privileged user gets past the privilege test of
\* /remove, exec_del, clear_tasks or a per-task action; an update of any other
\* user issues no remote call at all in these flows, and no per-task action
\* issues one.
C16_PrivilegedOnly ==
    \A p \in Procs :
        /\ ControlVerb(p) => ev[p].user \in admin_ids
        /\ (ev[p].action \in PrivilegedActions \cup {"remove"}
            /\ ev[p].user \notin admin_ids) =>
               /\ obs[p].calls = 0 /\ obs[p].bulk = 0
               /\ call[p] = NoCall
        /\ ev[p].action \in TaskActions => obs[p].calls = 0

C16_Witness ==
    \E p \in Procs :
        /\ ev[p].user = "u1" /\ "u1" \notin admin_ids
        /\ ev[p].action = "exec_del"
        /\ ev[p].idx < Len(user_data[Admin].remove_list)
        /\ \E q \in {Admin} : hist[q].confirmed # {}
        /\ obs[p].checked /\ ~obs[p].denied
        /\ pc[p] = "done"

-----------------------------------------------------------------------------
(* Episode selection claims *)

\* the selection of the work item that the event of task p names
Selected(p) == user_data[ev[p].user].selection[ev[p].id]

\* the handler of task p has applied its branch
Applied(p) == pc[p] \in {"ep_exec", "done"}

\* C17: one toggle_episode of episode E on selection S leaves the symmetric
\* difference of S and {E}, with every other episode's membership as it was;
\* when the user's previous event was a toggle of the same E on the same
\* work item, the selection is again what it was before that first toggle.
C17_ToggleTwice ==
    \A p \in Procs :
        (Applied(p) /\ ev[p].action = "toggle_episode") =>
            LET S == obs[p].was
                E == ev[p].ep
                last == hist[ev[p].user].last IN
            /\ Selected(p) = (S \ {E}) \cup ({E} \ S)
            /\ \A e \in EpisodeNos \ {E} : (e \in Selected(p)) = (e \in S)
            /\ (last # <<>> /\ last[1] = ev[p].id /\ last[2] = E) =>
                  Selected(p) = last[3]

C17_Witness ==
    \E p \in Procs :
        /\ pc[p] = "done" /\ ev[p].action = "toggle_episode"
        /\ hist[ev[p].user].last = <<ev[p].id, ev[p].ep, {1, 2}>>
        /\ ev[p].ep = 1
        /\ obs[p].was = {2}
        /\ Selected(p) = {1, 2}

\* C18: a step changes the selection of (user, work item) only when it is the
\* toggle, select-all, clear or submit of that user for that work item; a
\* page_episodes event changes no selection, whatever its page; and the
\* selection a toggle, select-all or clear leaves is determined by the
\* selection before, the episode number and the cached list: the page of the
\* event plays no part.
C18_PageKeepsSelection ==
    [][\A p \in Procs :
          /\ (pc'[p] # pc[p] /\ ev[p].action = "page_episodes") =>
                user_data' = user_data
          /\ (pc[p] = "answer" /\ pc'[p] # pc[p]
              /\ ev[p].action \in SelectionActions) =>
                /\ Selected(p)' =
                     CASE ev[p].action = "toggle_episode" ->
                            (Selected(p) \ {ev[p].ep})
                               \cup ({ev[p].ep} \ Selected(p))
                       [] ev[p].action = "select_all_ep" ->
                            AllEpNums(ep_list[ev[p].id])
                       [] ev[p].action = "clear_ep_sel" -> {}
                       [] OTHER -> Selected(p)
          /\ pc'[p] # pc[p] =>
                \A u \in Users, w \in WorkItems :
                    user_data'[u].selection[w] # user_data[u].selection[w] =>
                        /\ u = ev[p].user /\ w = ev[p].id
                        /\ ev[p].action \in
                             {"toggle_episode", "select_all_ep",
                              "clear_ep_sel", "batch_import"}]_vars

C18_Witness ==
    \E p \in Procs :
        /\ pc[p] = "done" /\ ev[p].action = "page_episodes"
        /\ ev[p].p = 2 /\ ev[p].id = 1
        /\ obs[p].was = {1, 2} /\ Selected(p) = {1, 2}
        /\ user_data[ev[p].user].selection[2] = {2}

\* C19 as stated: when a select_all_ep has been handled and the episode list
\* of its work item is fetched, the selection is the set of all episode
\* numbers of that list; when a clear_ep_sel has been handled it is empty.
C19_SelectAllIsFull ==
    \A p \in Procs :
        /\ (pc[p] = "done" /\ ev[p].action = "select_all_ep"
            /\ ep_list[ev[p].id] # <<>>) =>
               Selected(p) = ep_list[ev[p].id][1]
        /\ (Applied(p) /\ ev[p].action = "clear_ep_sel") => Selected(p) = {}

\* C20: the step that handles a batch_import while the selection of its work
\* item is empty ends the handler there: no api_call is entered, and the
\* sessions and the episode cache stay as they were.
C20_SelectionEmpty ==
    [][\A p \in Procs :
          (/\ pc[p] = "answer" /\ pc'[p] # pc[p]
           /\ ev[p].action = "batch_import"
           /\ Selected(p) = {}) =>
              /\ pc'[p] = "done"
              /\ call' = call /\ call[p] = NoCall
              /\ obs'[p].calls = 0
              /\ user_data' = user_data
              /\ ep_list' = ep_list]_vars

C20_Witness ==
    \E p \in Procs :
        /\ pc[p] = "done" /\ ev[p].action = "batch_import"
        /\ ev[p].id = 1
        /\ Selected(p) = {}
        /\ user_data[ev[p].user].selection[2] # {}
        /\ ep_list[1] # <<>>
        /\ obs[p].calls = 0

\* C21: a batch_import with a non-empty selection enters api_call exactly
\* once, with the selected episode numbers as its body (ev.eps, read at 948);
\* when the call returned the selection of that work item is empty at the
\* end, when it raised the selection is what it was.
C21_BatchImport ==
    \A p \in Procs :
        (ev[p].action = "batch_import" /\ ev[p].eps # {}) =>
            /\ pc[p] = "batch_status" =>
                  obs[p].calls = 0 /\ Selected(p) = ev[p].eps
            /\ pc[p] = "batch_exec" =>
                  obs[p].calls = 1 /\ Selected(p) = ev[p].eps
            /\ pc[p] = "batch_notify" => obs[p].calls = 1 /\ ~obs[p].failed
            /\ pc[p] = "done" =>
                  /\ obs[p].calls = 1
                  /\ Selected(p) = IF obs[p].failed THEN ev[p].eps ELSE {}

C21_Witness ==
    \E p \in Procs :
        /\ ev[p].action = "batch_import" /\ ev[p].eps = {1, 2}
        /\ pc[p] = "done" /\ ~obs[p].failed
        /\ Selected(p) = {}
        /\ \E w \in WorkItems : user_data[ev[p].user].selection[w] # {}

-----------------------------------------------------------------------------
(* Pagination claims *)

\* the number of pages of a list of length len: the least n with n * P >= len
Ceil(len, page_size) ==
    CHOOSE n \in 0..len : n * page_size >= len /\ (n = 0 \/ (n - 1) * page_size < len)

\* the items of Items(len) with indices in [lo, hi) clamped to [0, len)
Window(items, len, lo, hi) ==
    /\ Len(items) = Cardinality({i \in lo..(hi - 1) : i < len})
    /\ \A j \in 1..Len(items) : items[j] = Items(len)[lo + j]

\* C22: page k of a task, library or episode list of length L with page size
\* P shows exactly the items with indices in [(k-1)P, kP) clamped to [0, L),
\* has a previous button iff k > 1 and no next button on the last page
\* ceil(L/P) or beyond, nor for an empty list; the search list at cursor c
\* shows the indices in [c, c+P) clamped, has no previous button at cursor 0
\* and no next button when c + P >= L.
C22_PaginationBounds ==
    \A p \in Procs :
        LET v == obs[p].view
            L == v.len
            P == v.page_size
            k == v.page IN
        /\ v.kind \in {"tasks", "library", "episodes"} =>
              /\ Window(v.items, L, (k - 1) * P, k * P)
              /\ v.prev = (k > 1)
              /\ k >= Ceil(L, P) => ~v.next
              /\ k < Ceil(L, P) => v.next
        /\ v.kind = "search" =>
              /\ Window(v.items, L, k, k + P)
              /\ v.prev = (k > 0)
              /\ v.next = ~(k + P >= L)

C22_Witness ==
    \E p \in Procs :
        /\ obs[p].view.kind = "tasks"
        /\ obs[p].view.len = 3 /\ obs[p].view.page_size = 2
        /\ obs[p].view.page = 2
        /\ obs[p].view.items = <<3>>
        /\ obs[p].view.prev /\ ~obs[p].view.next

\* C23 as stated: while a non-empty search result list is cached, the cursor
\* stays inside it.
C23_CursorInRange ==
    \A u \in Users :
        user_data[u].last_search_results # <<>> =>
            /\ 0 <= user_data[u].search_start_index
            /\ user_data[u].search_start_index
                  < Len(user_data[u].last_search_results)

\* C24: /import with a typed term that ends in a season indicator carrying a
\* positive number issues exactly one import request, for a tv_series, with
\* the term without the indicator and that season, makes no search and leaves
\* the session as it is; a term without one, or any title read from a URL,
\* is searched instead
Indicated(t) ==
    /\ t.suffix \in {"marker", "cn_marker", "integer"}
    /\ t.n > 0
    /\ t.suffix = "integer" => t.base > 0

C24_DirectImport ==
    [][\A p \in Procs :
          (ev[p].action = "import" /\ ev[p].term # NoTerm /\ ~obs[p].denied) =>
             LET t == ev[p].term
                 direct == Indicated(t) /\ ev[p].arg = "text" IN
             /\ pc[p] \in {"import_status", "import_exec"} =>
                   /\ direct
                   /\ ev[p].req = [kind |-> "import",
                                   term |-> [t EXCEPT !.suffix = "none", !.n = 0],
                                   item |-> 0, media_type |-> "tv_series",
                                   season |-> t.n]
             /\ pc[p] \in {"search_status", "search_exec"} =>
                   ~direct /\ ev[p].req.kind = "search"
             /\ pc[p] = "done" =>
                   /\ obs[p].calls = 1
                   /\ direct <=> ev[p].req.kind = "import"
             /\ direct => user_data' = user_data]_vars

C24_Witness ==
    \E p \in Procs :
        /\ pc[p] = "done" /\ ev[p].action = "import" /\ ev[p].arg = "text"
        /\ ev[p].term = [base |-> 1, suffix |-> "integer", n |-> 2]
        /\ ev[p].req.kind = "import" /\ ev[p].req.season = 2
        /\ ev[p].req.term = [base |-> 1, suffix |-> "none", n |-> 0]
        /\ obs[p].calls = 1

\* C25: selecting a search result that is a movie imports it; selecting one
\* that is a series issues no import call (it opens the episode selection)
C25_SeriesOpensSelection ==
    \A p \in Procs :
        (ev[p].action = "import_item"
            /\ pc[p] \in {"import_status", "import_exec"}) =>
           ev[p].req.media_type = "movie"

\* C26: a cached task snapshot holds no completed task, is ordered by
\* creationTime descending and has at most max_list_items entries
C26_SnapshotInvariant ==
    \A u \in Users :
        user_data[u].has_tasks =>
           LET tasks == user_data[u].displayed_tasks IN
           /\ \A i \in 1..Len(tasks) : tasks[i].status # "completed"
           /\ \A i, j \in 1..Len(tasks) :
                 i < j => tasks[i].creationTime >= tasks[j].creationTime
           /\ Len(tasks) <= max_list_items

C26_Witness ==
    \E p \in Procs :
        /\ pc[p] = "done" /\ ev[p].action = "refresh_tasks" /\ ~obs[p].failed
        /\ user_data[ev[p].user].has_tasks
        /\ user_data[ev[p].user].displayed_tasks =
              <<[status |-> "failed", creationTime |-> 2],
                [status |-> "running", creationTime |-> 1]>>

\* C27: a privileged user's pause, resume, abort or delete of a task whose
\* index is in the cached snapshot issues the call for that task and then
\* fetches the list again: the update ends without an uncaught error, having
\* made the action's call and the fetch
C27_TaskActionCalls ==
    \A p \in Procs :
        (/\ pc[p] = "done" /\ ev[p].action \in TaskActions
         /\ Privileged(ev[p].user)
         /\ ev[p].idx < Len(user_data[ev[p].user].displayed_tasks)) =>
           ~obs[p].crashed /\ obs[p].calls = 2

\* C28: clear_tasks of a privileged user issues one delete for every fetched
\* task that is failed, aborted or completed and none for a queued, running
\* or paused one, and the count it reports is the number of tasks removed,
\* also when some deletes fail
Finished_(t) == t.status \in {"failed", "aborted", "completed"}

C28_ClearReportsRemoved ==
    \A p \in Procs :
        (/\ pc[p] = "done" /\ ev[p].action = "clear_tasks"
         /\ obs[p].removed # None) =>
           /\ obs[p].bulk =
                 Cardinality({i \in 1..Len(obs[p].listed) :
                                 Finished_(obs[p].listed[i])})
           /\ ~obs[p].crashed
           /\ obs[p].reported = obs[p].removed

\* C29: an import_item, req_del_confirm, exec_del or per-task action whose
\* index is not in the session's cached list makes no call, consumes no
\* quota and ends as a rejection, not as an uncaught error
StaleIndex(p) ==
    LET u == ev[p].user
        a == ev[p].action IN
    CASE a = "import_item" ->
            ev[p].idx >= Len(user_data[u].last_search_results)
      [] a \in {"req_del_confirm", "exec_del"} ->
            Privileged(u) /\ ev[p].idx >= Len(user_data[u].remove_list)
      [] a \in TaskActions ->
            Privileged(u) /\ ev[p].idx >= Len(user_data[u].displayed_tasks)
      [] OTHER -> FALSE

C29_StaleIndexRejected ==
    \A p \in Procs :
        (pc[p] = "done" /\ StaleIndex(p)) =>
           /\ ~obs[p].crashed
           /\ obs[p].calls = 0
           /\ obs[p].checked => obs[p].after = obs[p].before

\* C30: a task listing whose fetch failed leaves the session as it found it
C30_FailedListingKeepsSession ==
    \A p \in Procs :
        (/\ pc[p] = "done" /\ obs[p].failed
         /\ ev[p].action \in {"tasks", "view_tasks", "refresh_tasks",
                               "tasks_page_prev", "tasks_page_next"}) =>
           user_data[ev[p].user] = obs[p].sess

\* what a callback that is only dropped, or only discards its message, may
\* do while it is handled: end, with no call, no denial and no error, and
\* with the ledger, the sessions, the credential and the privileges as they
\* were
Untouched(p) ==
    /\ pc'[p] \in {"answer", "done"}
    /\ obs[p].calls = 0 /\ ~obs[p].crashed /\ ~obs[p].denied
    /\ ~obs[p].checked
    /\ obs'[p] = obs[p]
    /\ UNCHANGED <<user_ops, user_data, ep_list, admin_ids, hist, gwVars>>

\* C31: a callback whose payload does not decode, or names no known action,
\* is dropped: no call, no quota count, no session state and no credential
\* changes, and the user sees no error
C31_UndecodableDropped ==
    [][\A p \in Procs :
          (pc[p] \in {"answer", "done"} /\ ev[p].action = "undecodable") =>
             IF pc[p] = "answer" THEN Untouched(p)
             ELSE obs[p].calls = 0 /\ ~obs[p].crashed /\ ~obs[p].denied]_vars

C31_Witness ==
    \E p \in Procs :
        /\ pc[p] = "done" /\ ev[p].action = "undecodable"
        /\ ev[p].user \notin admin_ids
        /\ user_ops.date = today
        /\ Count(user_ops, ev[p].user) = 1
        /\ obs[p].calls = 0 /\ ~obs[p].crashed

\* C33: cancel_message only discards the message, for every user and in
\* every state: no call, no quota check (no denial and no count, also at the
\* daily limit), and the sessions and the credential stay as they were
C33_CancelUniform ==
    [][\A p \in Procs :
          (pc[p] \in {"answer", "done"} /\ ev[p].action = "cancel_message") =>
             IF pc[p] = "answer" THEN Untouched(p)
             ELSE /\ obs[p].calls = 0 /\ ~obs[p].crashed
                  /\ ~obs[p].denied /\ ~obs[p].checked]_vars

C33_Witness ==
    \E p \in Procs :
        /\ pc[p] = "done" /\ ev[p].action = "cancel_message"
        /\ ev[p].user \notin admin_ids
        /\ user_ops.date = today
        /\ Count(user_ops, ev[p].user) = user_daily_limit
        /\ ~obs[p].denied
        /\ user_data[ev[p].user].last_search_results # <<>>

\* C32: a callback with a known action whose payload lacks the field the
\* action reads is dropped like an undecodable one: no quota is consumed,
\* no call is made and nothing is raised
C32_MalformedDropped ==
    \A p \in Procs :
        (pc[p] = "done" /\ ~ev[p].fields) =>
           /\ ~obs[p].crashed
           /\ obs[p].calls = 0
           /\ obs[p].checked => obs[p].after = obs[p].before

C36_NoDoubleSpend ==
    [][/\ \A u \in Users :
             Count(user_ops', u) > Count(user_ops, u) =>
                /\ Count(user_ops', u) = Count(user_ops, u) + 1
                /\ \E p \in Procs :
                      /\ ev'[p].user = u
                      /\ ~obs[p].checked /\ obs'[p].checked
       /\ \A p \in Procs :
             (obs[p].checked /\ ~obs'[p].checked) =>
                pc[p] = "done" /\ pc'[p] = "idle"]_vars

C36_Witness ==
    \E p \in Procs :
        /\ pc[p] = "done" /\ ev[p].action = "page_next"
        /\ obs[p].checked /\ ~obs[p].denied
        /\ obs[p].prior = 1
        /\ Count(user_ops, ev[p].user) = 2

\* C37: the active key changes only in the step in which a _reset_api_key
\* receives a new key from the regenerate endpoint and installs it; with the
\* auto reset disabled no reset is ever started and the key is the initial
\* one, whatever the server answers
C37_KeyChangesByRotation ==
    [][/\ api_key' # api_key =>
             /\ auto_reset
             /\ \E p \in Procs :
                   /\ call[p].phase = "regen" /\ call[p].resets = 1
                   /\ call'[p].installs = Append(call[p].installs, api_key')
             /\ \A p \in Procs :
                   call'[p].installs # call[p].installs =>
                      call[p].phase = "regen"
       /\ ~auto_reset =>
             /\ api_key = InitialKey
             /\ \A p \in Procs :
                   /\ call[p].resets = 0 /\ ~Rotating(call[p])
                   /\ call[p].installs = <<>>]_vars

C37_Witness ==
    \E p, q \in Procs :
        /\ ~auto_reset
        /\ call[p].resp = <<429, 429, 429>> /\ call[p].phase = "raised"
        /\ call[q].resp = <<401>> /\ call[q].phase = "raised"
        /\ api_key = InitialKey

\* C38: a call sends at most Retries requests in its loop and at most one
\* after a key reset, starts at most one reset, and always ends: it returns
\* or raises, whatever the server answers
C38_CallTerminates ==
    \A p \in Procs :
        /\ [](LET c == call[p] IN
              /\ Cardinality({i \in 1..Len(c.sent) : c.sent[i].stage = "loop"})
                    <= Retries
              /\ Cardinality(FinalSends(c)) <= 1
              /\ Len(c.sent) <= Retries + 1
              /\ c.resets <= 1)
        /\ (pc[p] = "api" /\ ~CallEnded(p)) ~> CallEnded(p)

C38_Witness ==
    \E p \in Procs :
        /\ call[p].resp = <<429, 429, 429, 500>>
        /\ Len(call[p].sent) = Retries + 1
        /\ call[p].resets = 1
        /\ call[p].phase = "raised"

\* C39: while a cached task (library) list exists, a page event of tasks
\* (library) ends without a Gateway call and leaves the session as it was;
\* a listing command, a view and a refresh drop the cached list before they
\* fetch, so the list they leave behind was fetched by the same update.
C39_PagingUsesSnapshot ==
    /\ [][\A p \in Procs :
            (/\ pc[p] = "answer"
             /\ \/ /\ ev[p].action \in {"tasks_page_prev", "tasks_page_next"}
                   /\ user_data[ev[p].user].has_tasks
                \/ /\ ev[p].action \in {"lib_page_prev",
                                         "lib_page_next"}
                   /\ user_data[ev[p].user].has_library)
            => /\ pc'[p] = "done"
               /\ call'[p] = NoCall /\ obs'[p].calls = 0
               /\ user_data' = user_data]_vars
    /\ [](\A p \in Procs :
            LET s == user_data[ev[p].user]
                tasks == ev[p].action \in
                             {"tasks", "view_tasks", "refresh_tasks"}
                library == ev[p].action \in
                             {"library", "view_library", "refresh_library"}
            IN
            /\ (tasks /\ pc[p] \in {"tasks_status", "tasks_exec"})
                  => ~s.has_tasks
            /\ (library /\ pc[p] \in {"library_status", "library_exec"})
                  => ~s.has_library
            /\ (tasks /\ pc[p] = "done" /\ s.has_tasks)
                  => obs[p].calls = 1 /\ ~obs[p].failed
            /\ (library /\ pc[p] = "done" /\ s.has_library)
                  => obs[p].calls = 1 /\ ~obs[p].failed)

\* a task page event has ended on the cached list of two tasks without a
\* call, in a session that holds a cached library as well
C39_Witness ==
    /\ pc[Main] = "done" /\ ev[Main].action = "tasks_page_next"
    /\ obs[Main].sess.has_tasks /\ obs[Main].calls = 0
    /\ Len(user_data[ev[Main].user].displayed_tasks) = 2
    /\ user_data[ev[Main].user].displayed_library = Items(1)

\* a refresh that found a cached library of two items has left the library
\* of one item it fetched
C39_Refreshed ==
    /\ pc[Main] = "done" /\ ev[Main].action = "refresh_library"
    /\ obs[Main].sess.displayed_library = Items(2)
    /\ user_data[ev[Main].user].displayed_library = Items(1)
    /\ obs[Main].calls = 1

\* C40: import_item sends the import only after the library fetch of the
\* same update returned a library without an item of the same (lower-cased
\* title, year, season, episode count) as the selected result; with such
\* an item, or with a failed fetch, the update ends after that one call.
C40_DuplicateGuard ==
    [][\A p \in Procs :
          LET selected == Result(ev[p].sel)
              library_items == obs'[p].library
              lowered(item) ==
                  <<[item.title EXCEPT !.upper = FALSE], item.year,
                    item.season, item.episodeCount>>
              same == \E i \in 1..Len(library_items) :
                         lowered(library_items[i]) = lowered(selected)
              fetched == /\ pc[p] = "import_lib"
                         /\ call[p].phase = "returned"
          IN ev[p].action = "import_item" =>
                /\ (pc[p] # "import_exec" /\ pc'[p] = "import_exec")
                      => pc[p] = "import_status" /\ obs[p].calls = 1
                /\ (pc[p] # "import_status" /\ pc'[p] = "import_status")
                      => fetched /\ ~same
                /\ (pc[p] = "import_lib" /\ pc'[p] # "import_lib"
                       /\ (call[p].phase = "raised" \/ same))
                      => pc'[p] = "done" /\ obs'[p].calls = 1]_vars

\* the selected result is in the library under a title in the other case,
\* and the update has ended after the library fetch alone
C40_Witness ==
    /\ pc[Main] = "done" /\ ev[Main].action = "import_item"
    /\ ev[Main].sel = 1 /\ obs[Main].calls = 1
    /\ obs[Main].library =
          <<[Result(1) EXCEPT !.title.upper = FALSE]>>

\* the selected result has been imported past a library that holds another
\* item
C40_Imported ==
    /\ pc[Main] = "done" /\ ev[Main].action = "import_item"
    /\ ev[Main].sel = 1 /\ obs[Main].calls = 2
    /\ Len(obs[Main].library) = 1

====
